---- MODULE Spec2Model ----
(***************************************************************************)
(* Model of the orchestration core of kielo-convo-generator:                *)
(*   - voice assignment      (generate_ideas_json.py)                       *)
(*   - slugify               (generate_scripts.py, generate_conversations.py)*)
(*   - asset matching        (generate_videos.py)                           *)
(*   - video post-production (generate_subtitled_videos.py)                 *)
(*   - script stage          (generate_scripts.py)                          *)
(*   - speech stage          (tts_generator.py)                             *)
(*   - illustration stage    (generate_illustrations.py)                    *)
(* Each subsystem has its own specification over the shared variables; the  *)
(* variables of the other subsystems stay at their idle values.             *)
(***************************************************************************)
EXTENDS Integers, Sequences, FiniteSets, TLC

VARIABLES
    \* ---- voice assignment (generate_ideas_json.py) ----
    va_mode,          \* "idle" | "conversation" | "podcast": which function runs
    ideas_list,       \* the ideas_list argument: sequence of ideas
    used_voice_ids,   \* the per-idea set used_voice_ids
    va_i,             \* index of the idea the outer loop is at
    va_j,             \* index of the character the inner loop is at
    va_pc,            \* "idle" | "loop" | "returned" | "raised"
    va_input,         \* ideas_list as it was passed in
    va_last,          \* <<>>, or one record of what the last iteration of
                      \* assign_voice_ids computed: char, used, matching,
                      \* choice (the list random.choice drew from), voice
    va_pool,          \* the module-level list VOICES
    va_allow,         \* the module-level list ALLOWED_PODCAST_CHARACTERS
    \* ---- slugify (generate_scripts.py, generate_conversations.py) ----
    sl_variant,       \* "idle" | "ascii" | "localized": which slugify is used
    sl_title,         \* a title, as a sequence of characters
    sl_other,         \* a title differing from sl_title in case / separators only
    sl_edits,         \* number of edits that produced sl_other
    sl_slug,          \* slugify(sl_title)
    sl_slug_other,    \* slugify(sl_other)
    sl_reslug,        \* slugify(sl_slug)
    sl_pc,            \* "idle" | "input" | "slugged" | "reslugged"
    \* ---- video assembly (generate_videos.py) ----
    am_illustrations, \* entries of illustrations/
    am_mp3,           \* entries of mp3/
    am_dirs,          \* which of illustrations/ and mp3/ exist
    illustration_files, \* dict stem -> entry
    mp3_files,        \* dict stem -> entry
    common_names,     \* set of stems
    am_todo,          \* what is left of sorted(common_names)
    am_temp,          \* temp/: whether it exists and the files in it
    am_videos,        \* stems of the videos written to output_videos/
    am_attempted,     \* sequence of the names the loop body ran for
    am_pc,            \* "idle" | "start" | "loop" | "done" | "crashed"
    \* ---- video post-production (generate_subtitled_videos.py) ----
    vp_dirs,          \* the directories that exist
    vp_files,         \* the files that exist, as paths
    video_files,      \* the list video_files
    vp_idx,           \* index into video_files of the item in work
    vp_pc,            \* "idle" | "start" | "subtitle" | "mix" | "cleanup" |
                      \* "finish" | "returned" | "crashed"
    vp_sub_calls,     \* sequence of videos generate_subtitles was called for
    vp_mix_calls,     \* sequence of videos add_background_music was called for
    vp_no_temp,       \* videos whose subtitling returned without a temp output
    vp_mix_failed,    \* videos whose mixing reported a failure
    \* ---- script stage (generate_scripts.py) ----
    sc_argv,          \* sys.argv[1], Missing when no argument was given
    idea_files,       \* file name -> "absent" | "bad_json" | the ideas it holds
    sc_script_type,   \* the script_type argument of process_ideas_file
    sc_ideas,         \* the list ideas read from the input file
    sc_idx,           \* index into sc_ideas of the idea in work
    sc_pc,            \* "idle" | "start" | "loop" | "returned" | "crashed"
    sc_outcomes,      \* per idea the loop ran for, what its generator did
    sc_writes,        \* sequence of [idx, path]: the files save_scripts wrote
    sc_reads,         \* names of the input files the run opened
    \* ---- the directories the stages share ----
    fs_scripts,       \* folder -> whether it exists and the script files in it
    fs_mp3,           \* names of the files in mp3/
    fs_illustrations, \* names of the files in illustrations/
    \* ---- speech stage (tts_generator.py) ----
    tt_argv,          \* sys.argv[1], Missing when no argument was given
    tt_key,           \* TRUE when ELEVENLABS_API_KEY is set
    tt_plan,          \* the process_scripts_directory calls main has yet to make
    tt_dir,           \* scripts_dir of the call in progress
    tt_type,          \* script_type of the call in progress
    tt_files,         \* what is left of script_files
    tt_pc,            \* "idle" | "start" | "main" | "loop" | "returned" | "crashed"
    tt_calls,         \* [dir, name] of the scripts the speech collaborator
                      \* was invoked for
    tt_seen,          \* [dir, name] of the scripts the loop body ran for
    tt_reads,         \* folders the run looked into
    tt_saved,         \* [dir, name, file]: the audio file written for a script
    \* ---- illustration stage (generate_illustrations.py) ----
    il_files,         \* what is left of json_files
    il_pc,            \* "idle" | "start" | "loop" | "returned" | "crashed"
    il_calls,         \* names of the scripts the image collaborator was
                      \* invoked for
    il_seen,          \* names of the scripts the loop body ran for
    il_saved,         \* [dir, name, file]: the image written for a script
    \* ---- workspace cleanup (cleanup.py) ----
    cl_input,         \* what input() returned, as a sequence of characters
    cl_fs,            \* path -> what is at that path of the working directory
    cl_before,        \* cl_fs as it was when the program started
    cl_todo,          \* what is left of the list the current loop goes through
    cl_run,           \* how many times cleanup() was entered
    cl_pc             \* "idle" | "input" | "directories" | "files" | "done" |
                      \* "cancelled" | "crashed"

va_vars == <<va_mode, ideas_list, used_voice_ids, va_i, va_j, va_pc, va_input,
             va_last, va_pool, va_allow>>
sl_vars == <<sl_variant, sl_title, sl_other, sl_edits, sl_slug, sl_slug_other,
             sl_reslug, sl_pc>>
am_vars == <<am_illustrations, am_mp3, am_dirs, illustration_files, mp3_files,
             common_names, am_todo, am_temp, am_videos, am_attempted, am_pc>>
vp_vars == <<vp_dirs, vp_files, video_files, vp_idx, vp_pc, vp_sub_calls,
             vp_mix_calls, vp_no_temp, vp_mix_failed>>
sc_vars == <<sc_argv, idea_files, sc_script_type, sc_ideas, sc_idx, sc_pc,
             sc_outcomes, sc_writes, sc_reads>>
fs_vars == <<fs_scripts, fs_mp3, fs_illustrations>>
tt_vars == <<tt_argv, tt_key, tt_plan, tt_dir, tt_type, tt_files, tt_pc,
             tt_calls, tt_seen, tt_reads, tt_saved>>
il_vars == <<il_files, il_pc, il_calls, il_seen, il_saved>>
cl_vars == <<cl_input, cl_fs, cl_before, cl_todo, cl_run, cl_pc>>

\* The variables of the batch stages, and those of the other subsystems.
\* cleanup.py is a program of its own: no other program touches its variables.
st_vars == <<sc_vars, fs_vars, tt_vars, il_vars, cl_vars>>
core_vars == <<va_vars, sl_vars, am_vars, vp_vars, cl_vars>>

vars == <<va_vars, sl_vars, am_vars, vp_vars, st_vars>>

----------------------------------------------------------------------------
(* Bounds *)
MaxIdeas == 2
MaxChars == 2
MaxLong == 10

----------------------------------------------------------------------------
(* Python values *)

\* A dictionary key that is absent (dict.get then yields its default).
Missing == "<missing>"

\* Mutation: dict.get(key), which gives None for an absent key.
Get_NoDefault(value, default) == value

\* dict.get(key, default)
Get(value, default) == IF value = Missing THEN default ELSE value

\* str.lower() on the strings the model uses.
Lower(s) ==
    CASE s = "Female" -> "female"
      [] s = "MALE" -> "male"
      [] s = "Senior" -> "senior"
      [] s = "Aurora" -> "aurora"
      [] s = "AURORA" -> "aurora"
      [] s = "Jussi" -> "jussi"
      [] s = "Bob" -> "bob"
      [] s = "Liisa" -> "liisa"
      [] s = "Mikko" -> "mikko"
      [] s = "PODCAST" -> "podcast"
      [] s = "ALL" -> "all"
      [] OTHER -> s

\* A directory: whether it exists, and the files in it.
Dir(exists, files) == [exists |-> exists, files |-> files]

\* A directory that does not exist.
NoDir == Dir(FALSE, {})

\* The set of elements of a sequence.
Range(s) == {s[k] : k \in 1..Len(s)}

----------------------------------------------------------------------------
(* The voice pools *)

Voice(n, g, a, id) == [name |-> n, gender |-> g, age |-> a, voice_id |-> id]

VOICES == <<
    Voice("Aurora Voice", "female", "young adult", "YSabzCJMvEHDduIDMdwV"),
    Voice("Jussi - Strong finnish Accent", "male", "young adult", "dlbXHgJnwobU5JdZ8F5M"),
    Voice("Mark - ConvoAI", "male", "adult", "1SM7GgM6IMuvQlz2BwM3"),
    Voice("ScheilaSMTy", "female", Missing, "cyD08lEy76q03ER1jZ7y"),
    Voice("Rahul Bharadwaj - Highly Energetic Voice", "male", "middle-aged", "u7bRcYbD7visSINTyAT8"),
    Voice("Grandpa Spuds Oxley", "male", "senior", "NOpBlnGInO9m6vDvFkFC"),
    Voice("Hope - Smooth talker", "female", "adult", "1SM7GgM6IMuvQlz2BwM3"),
    Voice("Grandma Rachel", "female", "senior", "0rEo3eAjssGDUCXHYENf"),
    Voice("Gretchen - Valley Girl & Ditzy", "female", "kid", "JVVJ6VsnUPJAdfGmEBGP"),
    Voice("Brayden - Conversational Older Teen", "male", "teenager", "3XOBzXhnDY98yeWQ3GdM") >>

ALLOWED_PODCAST_CHARACTERS == <<
    Voice("Aurora", "female", "young adult", "YSabzCJMvEHDduIDMdwV"),
    Voice("Jussi", "male", "young adult", "dlbXHgJnwobU5JdZ8F5M") >>

----------------------------------------------------------------------------
(* assign_voice_ids: the body of the inner loop *)

\* gender = char.get("gender", "unknown").lower()
CharGender(char) == Lower(Get(char.gender, "unknown"))

\* age = char.get("age", "").lower()
CharAge(char) == Lower(Get(char.age, ""))

\* [v for v in VOICES if gender matches and age matches]
MatchBoth(gender, age) ==
    LET Test(v) == /\ Lower(Get(v.gender, "")) = gender
                   /\ Lower(Get(v.age, "")) = age
    IN  SelectSeq(VOICES, Test)

\* [v for v in VOICES if gender matches]
MatchGender(gender) ==
    LET Test(v) == Lower(Get(v.gender, "")) = gender
    IN  SelectSeq(VOICES, Test)

\* Mutation: the first comprehension runs whatever the age is.
Matching_NoAgeGuard(char) ==
    LET gender == CharGender(char)
        age == CharAge(char)
        m1 == MatchBoth(gender, age)
        m2 == IF m1 = <<>> THEN MatchGender(gender) ELSE m1
    IN  IF m2 = <<>> THEN VOICES ELSE m2

\* The list `matching` after the three `if` statements.
Matching(char) ==
    LET gender == CharGender(char)
        age == CharAge(char)
        m1 == IF age # "" THEN MatchBoth(gender, age) ELSE <<>>
        m2 == IF m1 = <<>> THEN MatchGender(gender) ELSE m1
    IN  IF m2 = <<>> THEN VOICES ELSE m2

\* [v for v in pool if v["voice_id"] not in used]
Unused(pool, used) ==
    LET Test(v) == v.voice_id \notin used
    IN  SelectSeq(pool, Test)

\* Mutation: the used ids are removed from the whole pool, not from the
\* matching voices.
AvailableVoices_Any(char, used) == Unused(VOICES, used)

\* The list `available_voices` after the fallback `if`.
AvailableVoices(char, used) ==
    LET a1 == Unused(Matching(char), used)
    IN  IF a1 = <<>> THEN Unused(VOICES, used) ELSE a1

\* Mutation: random.choice always draws from the whole pool.
ChoicePool_Pool(char, used) == VOICES

\* The list random.choice draws from.
ChoicePool(char, used) ==
    LET a == AvailableVoices(char, used)
    IN  IF a # <<>> THEN a ELSE VOICES

\* None has no .lower(): calling it raises AttributeError.
HasNoLower(value) == value = Missing

\* Lines 191-192: one of the two .lower() calls on the character raises.
CharLowerRaises(char) ==
    \/ HasNoLower(Get(char.gender, "unknown"))
    \/ HasNoLower(Get(char.age, ""))

\* Lines 196-199: a .lower() call inside the list comprehensions raises.
\* The first comprehension runs when age is not empty and reads the age of
\* the voices whose gender matched; the second runs when `matching` is
\* still empty.
VoiceLowerRaises(char) ==
    LET gender == CharGender(char)
        age == CharAge(char)
    IN  \/ /\ age # ""
           /\ \E k \in 1..Len(VOICES) :
                 \/ HasNoLower(Get(VOICES[k].gender, ""))
                 \/ /\ Lower(Get(VOICES[k].gender, "")) = gender
                    /\ HasNoLower(Get(VOICES[k].age, ""))
        \/ /\ age = "" \/ MatchBoth(gender, age) = <<>>
           /\ \E k \in 1..Len(VOICES) : HasNoLower(Get(VOICES[k].gender, ""))

\* One iteration of the inner loop of assign_voice_ids raises: a .lower()
\* call, or random.choice on an empty list.
AssignRaises(char, used) ==
    \/ CharLowerRaises(char)
    \/ VoiceLowerRaises(char)
    \/ ChoicePool(char, used) = <<>>

\* Mutation: the character is replaced by a new dict holding the voice_id.
SetVoiceId_NewDict(char, id) ==
    [name |-> Missing, gender |-> Missing, age |-> Missing, voice_id |-> id]

\* char["voice_id"] = ...: the character with that one key set.
SetVoiceId(char, id) == [char EXCEPT !.voice_id = id]

\* Mutation: the name of the voice is stored instead of its id.
AssignedId_Name(voice) == voice.name

\* The value stored into char["voice_id"].
AssignedId(voice) == voice.voice_id

----------------------------------------------------------------------------
(* assign_podcast_voice_ids *)

\* voice_map = {v["name"].lower(): v["voice_id"] for v in ALLOWED_PODCAST_CHARACTERS}
\* voice_map.get(name): the value of the last entry with that key, else None.
VoiceMapGet(name) ==
    LET hits == {k \in 1..Len(ALLOWED_PODCAST_CHARACTERS) :
                    Lower(ALLOWED_PODCAST_CHARACTERS[k].name) = name}
    IN  IF hits = {} THEN Missing
        ELSE ALLOWED_PODCAST_CHARACTERS[CHOOSE k \in hits : \A h \in hits : h <= k].voice_id

\* char_name = char.get("name", "").lower()
CharName(char) == Lower(Get(char.name, ""))

\* One iteration of the loop of assign_podcast_voice_ids raises: the
\* .lower() call of line 229, or random.choice on an empty allow-list.
PodcastAssignRaises(char) ==
    \/ HasNoLower(Get(char.name, ""))
    \/ VoiceMapGet(CharName(char)) = Missing /\ ALLOWED_PODCAST_CHARACTERS = <<>>

\* Mutation: the fallback draws from the full pool.
PodcastFallbackPool_Full == VOICES

\* The list the fallback random.choice draws from.
PodcastFallbackPool == ALLOWED_PODCAST_CHARACTERS

----------------------------------------------------------------------------
(* Inputs *)

Character(n, g, a) == [name |-> n, gender |-> g, age |-> a, voice_id |-> Missing]

ConversationChars == {
    Character("Liisa", "female", Missing),
    Character("Mikko", "male", Missing),
    Character("Mummo", "Female", "Senior"),
    Character("Aino", "female", ""),
    Character("Robo", Missing, "adult") }

PodcastChars == {
    Character("Aurora", "female", "young adult"),
    Character("JUSSI", "male", "young adult"),
    Character("Bob", "male", "adult"),
    Character(Missing, "female", Missing) }

SeqsUpTo(S, n) == UNION {[1..k -> S] : k \in 0..n}

Idea(chars) == [title |-> "Kahvilassa", characters |-> chars]

\* The ideas that follow the first one of a list.
FollowIdea(mode) ==
    IF mode = "conversation"
    THEN Idea(<<Character("Mummo", "Female", "Senior"),
                Character("Pekka", "MALE", "adult")>>)
    ELSE Idea(<<Character("Aurora", "female", "young adult"),
                Character("JUSSI", "male", "young adult")>>)

\* The lists of n ideas: a first idea and the ideas that follow it.
IdeasList(mode, first, n) ==
    IF n = 0 THEN <<>>
    ELSE <<first>> \o [k \in 1..(n - 1) |-> FollowIdea(mode)]

----------------------------------------------------------------------------
(* Idle values: a subsystem that a specification does not run *)

IdleVoice ==
    /\ va_mode = "idle"
    /\ ideas_list = <<>>
    /\ used_voice_ids = {}
    /\ va_i = 1
    /\ va_j = 1
    /\ va_pc = "idle"
    /\ va_input = <<>>
    /\ va_last = <<>>
    /\ va_pool = VOICES
    /\ va_allow = ALLOWED_PODCAST_CHARACTERS

IdleSlug ==
    /\ sl_variant = "idle"
    /\ sl_title = <<>>
    /\ sl_other = <<>>
    /\ sl_edits = 0
    /\ sl_slug = <<>>
    /\ sl_slug_other = <<>>
    /\ sl_reslug = <<>>
    /\ sl_pc = "idle"

IdleMatch ==
    /\ am_illustrations = {}
    /\ am_mp3 = {}
    /\ am_dirs = {}
    /\ illustration_files = <<>>
    /\ mp3_files = <<>>
    /\ common_names = {}
    /\ am_todo = <<>>
    /\ am_temp = NoDir
    /\ am_videos = {}
    /\ am_attempted = <<>>
    /\ am_pc = "idle"

IdleVideo ==
    /\ vp_dirs = {}
    /\ vp_files = {}
    /\ video_files = <<>>
    /\ vp_idx = 1
    /\ vp_pc = "idle"
    /\ vp_sub_calls = <<>>
    /\ vp_mix_calls = <<>>
    /\ vp_no_temp = {}
    /\ vp_mix_failed = {}

IdleScript ==
    /\ sc_argv = Missing
    /\ idea_files = <<>>
    /\ sc_script_type = "idle"
    /\ sc_ideas = <<>>
    /\ sc_idx = 1
    /\ sc_pc = "idle"
    /\ sc_outcomes = <<>>
    /\ sc_writes = <<>>
    /\ sc_reads = {}

IdleDirs ==
    /\ fs_scripts = <<>>
    /\ fs_mp3 = {}
    /\ fs_illustrations = {}

IdleTts ==
    /\ tt_argv = Missing
    /\ tt_key = FALSE
    /\ tt_plan = <<>>
    /\ tt_dir = "idle"
    /\ tt_type = "idle"
    /\ tt_files = <<>>
    /\ tt_pc = "idle"
    /\ tt_calls = {}
    /\ tt_seen = {}
    /\ tt_reads = {}
    /\ tt_saved = {}

IdleIllustration ==
    /\ il_files = <<>>
    /\ il_pc = "idle"
    /\ il_calls = {}
    /\ il_seen = {}
    /\ il_saved = {}

IdleCleanup ==
    /\ cl_input = <<>>
    /\ cl_fs = <<>>
    /\ cl_before = <<>>
    /\ cl_todo = <<>>
    /\ cl_run = 0
    /\ cl_pc = "idle"

IdleStages ==
    IdleScript /\ IdleDirs /\ IdleTts /\ IdleIllustration /\ IdleCleanup

----------------------------------------------------------------------------
(* Voice assignment as a state machine *)

\* The call: ideas_list is the caller's list, the two pools are the
\* module-level lists of lines 36-122.
StartAssign ==
    /\ va_input = ideas_list
    /\ va_last = <<>>
    /\ va_pool = VOICES
    /\ va_allow = ALLOWED_PODCAST_CHARACTERS

InitVoice ==
    /\ \E m \in {"conversation", "podcast"} :
       \E n \in 0..MaxIdeas :
       \E chars \in SeqsUpTo(IF m = "conversation" THEN ConversationChars
                                                   ELSE PodcastChars, MaxChars) :
          /\ va_mode = m
          /\ ideas_list = IdeasList(m, Idea(chars), n)
    /\ StartAssign
    /\ used_voice_ids = {}
    /\ va_i = 1
    /\ va_j = 1
    /\ va_pc = "loop"
    /\ IdleSlug /\ IdleMatch /\ IdleVideo /\ IdleStages

\* One iteration of `for char in characters` in assign_voice_ids.
AssignVoice ==
    /\ va_pc = "loop"
    /\ va_mode = "conversation"
    /\ va_i <= Len(ideas_list)
    /\ va_j <= Len(ideas_list[va_i].characters)
    /\ LET char == ideas_list[va_i].characters[va_j]
           pool == ChoicePool(char, used_voice_ids)
       IN  IF AssignRaises(char, used_voice_ids)
           THEN /\ va_pc' = "raised"
                /\ UNCHANGED <<ideas_list, used_voice_ids, va_j, va_last>>
           ELSE /\ \E k \in 1..Len(pool) :
                      /\ ideas_list' = [ideas_list EXCEPT
                            ![va_i].characters[va_j] =
                                SetVoiceId(char, AssignedId(pool[k]))]
                      /\ used_voice_ids' = used_voice_ids \cup {AssignedId(pool[k])}
                      /\ va_last' = <<[char |-> char,
                                       used |-> used_voice_ids,
                                       matching |-> Matching(char),
                                       choice |-> pool,
                                       voice |-> pool[k]]>>
                /\ va_j' = va_j + 1
                /\ va_pc' = va_pc
    /\ UNCHANGED <<va_mode, va_i, va_input, va_pool, va_allow>>
    /\ UNCHANGED <<sl_vars, am_vars, vp_vars, st_vars>>

\* One iteration of `for char in idea.get(key, [])` in assign_podcast_voice_ids.
AssignPodcastVoice ==
    /\ va_pc = "loop"
    /\ va_mode = "podcast"
    /\ va_i <= Len(ideas_list)
    /\ va_j <= Len(ideas_list[va_i].characters)
    /\ LET char == ideas_list[va_i].characters[va_j]
           voice_id == VoiceMapGet(CharName(char))
       IN  IF PodcastAssignRaises(char)
           THEN /\ va_pc' = "raised"
                /\ UNCHANGED <<ideas_list, va_j>>
           ELSE /\ IF voice_id # Missing
                   THEN ideas_list' = [ideas_list EXCEPT
                           ![va_i].characters[va_j] = SetVoiceId(char, voice_id)]
                   ELSE \E k \in 1..Len(PodcastFallbackPool) :
                           ideas_list' = [ideas_list EXCEPT
                              ![va_i].characters[va_j] =
                                  SetVoiceId(char, PodcastFallbackPool[k].voice_id)]
                /\ va_j' = va_j + 1
                /\ va_pc' = va_pc
    /\ UNCHANGED <<va_mode, va_i, used_voice_ids, va_input, va_last, va_pool,
                   va_allow>>
    /\ UNCHANGED <<sl_vars, am_vars, vp_vars, st_vars>>

\* The inner loop is exhausted: `for idea in ideas_list` takes the next idea
\* (assign_voice_ids starts it with used_voice_ids = set()).
NextIdea ==
    /\ va_pc = "loop"
    /\ va_i <= Len(ideas_list)
    /\ va_j > Len(ideas_list[va_i].characters)
    /\ va_i' = va_i + 1
    /\ va_j' = 1
    /\ used_voice_ids' = {}
    /\ UNCHANGED <<va_mode, ideas_list, va_pc, va_input, va_last, va_pool,
                   va_allow>>
    /\ UNCHANGED <<sl_vars, am_vars, vp_vars, st_vars>>

\* `return ideas_list`
ReturnIdeas ==
    /\ va_pc = "loop"
    /\ va_i > Len(ideas_list)
    /\ va_pc' = "returned"
    /\ UNCHANGED <<va_mode, ideas_list, used_voice_ids, va_i, va_j, va_input,
                   va_last, va_pool, va_allow>>
    /\ UNCHANGED <<sl_vars, am_vars, vp_vars, st_vars>>

NextVoice == AssignVoice \/ AssignPodcastVoice \/ NextIdea \/ ReturnIdeas

SpecVoice == InitVoice /\ [][NextVoice]_vars

----------------------------------------------------------------------------
(* A long single idea, to exhaust the pool *)

LongChar == Character("Mikko", "male", "adult")

InitPool ==
    /\ va_mode = "conversation"
    /\ \E n \in 1..MaxLong : ideas_list = <<Idea([k \in 1..n |-> LongChar])>>
    /\ StartAssign
    /\ used_voice_ids = {}
    /\ va_i = 1
    /\ va_j = 1
    /\ va_pc = "loop"
    /\ IdleSlug /\ IdleMatch /\ IdleVideo /\ IdleStages

NextPool == AssignVoice \/ NextIdea \/ ReturnIdeas

SpecPool == InitPool /\ [][NextPool]_vars

----------------------------------------------------------------------------
(* Any list of ideas: the short ideas of InitVoice, or one crowded idea *)

CrowdChar == Character("Liisa", "female", Missing)

InitCrowd ==
    /\ va_mode = "conversation"
    /\ \E n \in 1..MaxLong : ideas_list = <<Idea([k \in 1..n |-> CrowdChar])>>
    /\ StartAssign
    /\ used_voice_ids = {}
    /\ va_i = 1
    /\ va_j = 1
    /\ va_pc = "loop"
    /\ IdleSlug /\ IdleMatch /\ IdleVideo /\ IdleStages

InitAssign == InitVoice \/ InitCrowd

SpecAssign == InitAssign /\ [][NextVoice]_vars

----------------------------------------------------------------------------
(* Claims about voice assignment *)

\* The characters the loops have already passed.
Processed(i, j) ==
    /\ i \in 1..Len(ideas_list)
    /\ j \in 1..Len(ideas_list[i].characters)
    /\ \/ i < va_i
       \/ i = va_i /\ j < va_j

PoolIds == {VOICES[k].voice_id : k \in 1..Len(VOICES)}
AllowListIds == {ALLOWED_PODCAST_CHARACTERS[k].voice_id :
                    k \in 1..Len(ALLOWED_PODCAST_CHARACTERS)}

\* C1: every character the assignment has handled carries a non-empty
\* voice_id that is the voice_id of an entry of VOICES (assign_voice_ids) or
\* of ALLOWED_PODCAST_CHARACTERS (assign_podcast_voice_ids); on return that
\* is every character of every idea.
C1_Totality ==
    /\ \A i \in 1..Len(ideas_list) : \A j \in 1..Len(ideas_list[i].characters) :
          Processed(i, j) =>
             LET id == ideas_list[i].characters[j].voice_id
             IN  /\ id # Missing
                 /\ id # ""
                 /\ va_mode = "conversation" => id \in PoolIds
                 /\ va_mode = "podcast" => id \in AllowListIds
    /\ va_pc = "returned" =>
          \A i \in 1..Len(ideas_list) : \A j \in 1..Len(ideas_list[i].characters) :
             Processed(i, j)

C1_Witness ==
    /\ va_pc = "returned"
    /\ va_mode = "conversation"
    /\ Len(ideas_list) = 2
    /\ Len(ideas_list[2].characters) = 2
    /\ ideas_list[2].characters[2].voice_id \in PoolIds

\* C2 (as claimed): after assign_voice_ids, in every idea with at most
\* Len(VOICES) characters the assigned voice_ids are pairwise distinct.
C2_DistinctUpToPoolSize ==
    (va_mode = "conversation" /\ va_pc = "returned") =>
       \A i \in 1..Len(ideas_list) :
          LET chars == ideas_list[i].characters
          IN  Len(chars) <= Len(VOICES) =>
                 \A a, b \in 1..Len(chars) :
                    a # b => chars[a].voice_id # chars[b].voice_id

----------------------------------------------------------------------------
(* slugify *)

MaxLen == 3
MaxEdits == 1

\* str.lower() on one character.
LowerChar(c) ==
    CASE c = "A" -> "a"
      [] c = "B" -> "b"
      [] c = "K" -> "k"
      [] c = "Ä" -> "ä"
      [] c = "Ö" -> "ö"
      [] c = "É" -> "é"
      [] c = "Y" -> "y"
      [] c = "E" -> "e"
      [] c = "S" -> "s"
      [] c = "N" -> "n"
      [] c = "O" -> "o"
      [] OTHER -> c

\* title.lower()
LowerStr(s) == [k \in 1..Len(s) |-> LowerChar(s[k])]

\* The character class a-z0-9 of generate_conversations.py.
AsciiClass ==
    {"a", "b", "c", "d", "e", "f", "g", "h", "i", "j", "k", "l", "m", "n",
     "o", "p", "q", "r", "s", "t", "u", "v", "w", "x", "y", "z",
     "0", "1", "2", "3", "4", "5", "6", "7", "8", "9"}

\* The character class a-z0-9äö of generate_scripts.py.
LocalizedClass == AsciiClass \cup {"ä", "ö"}

\* re.sub('[^class]+', '-', s): every maximal run of characters outside the
\* class becomes one hyphen. inRun: the previous character was outside it.
RECURSIVE ReSubRuns(_, _, _)
ReSubRuns(s, class, inRun) ==
    IF s = <<>> THEN <<>>
    ELSE IF Head(s) \in class
         THEN <<Head(s)>> \o ReSubRuns(Tail(s), class, FALSE)
         ELSE (IF inRun THEN <<>> ELSE <<"-">>) \o ReSubRuns(Tail(s), class, TRUE)

\* re.sub('[^class]', '-', s): every character outside the class becomes a hyphen.
ReSubEach(s, class) == [k \in 1..Len(s) |-> IF s[k] \in class THEN s[k] ELSE "-"]

\* s.lstrip(c)
RECURSIVE LStrip(_, _)
LStrip(s, c) == IF s # <<>> /\ Head(s) = c THEN LStrip(Tail(s), c) ELSE s

\* s.rstrip(c)
RECURSIVE RStrip(_, _)
RStrip(s, c) ==
    IF s # <<>> /\ s[Len(s)] = c THEN RStrip(SubSeq(s, 1, Len(s) - 1), c) ELSE s

\* s.strip(c)
Strip(s, c) == RStrip(LStrip(s, c), c)

\* Mutation: the result is not stripped.
SlugifyClass_NoStrip(title, class) == ReSubRuns(LowerStr(title), class, FALSE)

\* Mutation: the pattern has no +, so each character is replaced on its own.
SlugifyClass_NoPlus(title, class) == Strip(ReSubEach(LowerStr(title), class), "-")

\* re.sub(r'[^class]+', '-', title.lower()).strip('-')
SlugifyClass(title, class) == Strip(ReSubRuns(LowerStr(title), class, FALSE), "-")

\* slugify of generate_scripts.py
slugify(title) == SlugifyClass(title, LocalizedClass)

\* slugify of generate_conversations.py
slugify_ascii(title) == SlugifyClass(title, AsciiClass)

\* The slugify the run uses.
Slug(variant, title) ==
    IF variant = "localized" THEN slugify(title) ELSE slugify_ascii(title)

\* Characters titles are made of.
TitleChars == {"A", "b", "1", "Ä", "ö", "é", " ", "!", "-"}

\* Whitespace and punctuation.
Separators == {" ", "!", "-"}

\* The same letter in the other case.
SwapCase(c) ==
    CASE c = "A" -> "a"
      [] c = "a" -> "A"
      [] c = "b" -> "B"
      [] c = "B" -> "b"
      [] c = "Ä" -> "ä"
      [] c = "ä" -> "Ä"
      [] c = "ö" -> "Ö"
      [] c = "Ö" -> "ö"
      [] c = "é" -> "É"
      [] c = "É" -> "é"
      [] OTHER -> c

InitSlug ==
    /\ sl_variant \in {"ascii", "localized"}
    /\ sl_title \in SeqsUpTo(TitleChars, MaxLen)
    /\ sl_other = sl_title
    /\ sl_edits = 0
    /\ sl_slug = <<>>
    /\ sl_slug_other = <<>>
    /\ sl_reslug = <<>>
    /\ sl_pc = "input"
    /\ IdleVoice /\ IdleMatch /\ IdleVideo /\ IdleStages

\* The other title gets one letter in the other case.
Recase ==
    /\ sl_pc = "input"
    /\ sl_edits < MaxEdits
    /\ \E k \in 1..Len(sl_other) :
          /\ SwapCase(sl_other[k]) # sl_other[k]
          /\ sl_other' = [sl_other EXCEPT ![k] = SwapCase(sl_other[k])]
    /\ sl_edits' = sl_edits + 1
    /\ UNCHANGED <<sl_variant, sl_title, sl_slug, sl_slug_other, sl_reslug, sl_pc>>
    /\ UNCHANGED <<va_vars, am_vars, vp_vars, st_vars>>

\* The other title gets one more whitespace or punctuation character next to
\* an existing one.
RepeatSeparator ==
    /\ sl_pc = "input"
    /\ sl_edits < MaxEdits
    /\ \E k \in 1..Len(sl_other) : \E c \in Separators :
          /\ sl_other[k] \in Separators
          /\ sl_other' = SubSeq(sl_other, 1, k) \o <<c>> \o
                         SubSeq(sl_other, k + 1, Len(sl_other))
    /\ sl_edits' = sl_edits + 1
    /\ UNCHANGED <<sl_variant, sl_title, sl_slug, sl_slug_other, sl_reslug, sl_pc>>
    /\ UNCHANGED <<va_vars, am_vars, vp_vars, st_vars>>

\* The other title gets one whitespace or punctuation character replaced by
\* another one.
ChangeSeparator ==
    /\ sl_pc = "input"
    /\ sl_edits < MaxEdits
    /\ \E k \in 1..Len(sl_other) : \E c \in Separators :
          /\ sl_other[k] \in Separators
          /\ c # sl_other[k]
          /\ sl_other' = [sl_other EXCEPT ![k] = c]
    /\ sl_edits' = sl_edits + 1
    /\ UNCHANGED <<sl_variant, sl_title, sl_slug, sl_slug_other, sl_reslug, sl_pc>>
    /\ UNCHANGED <<va_vars, am_vars, vp_vars, st_vars>>

\* slugify is applied to both titles.
Slugify ==
    /\ sl_pc = "input"
    /\ sl_slug' = Slug(sl_variant, sl_title)
    /\ sl_slug_other' = Slug(sl_variant, sl_other)
    /\ sl_pc' = "slugged"
    /\ UNCHANGED <<sl_variant, sl_title, sl_other, sl_edits, sl_reslug>>
    /\ UNCHANGED <<va_vars, am_vars, vp_vars, st_vars>>

\* slugify is applied to the slug.
Reslugify ==
    /\ sl_pc = "slugged"
    /\ sl_reslug' = Slug(sl_variant, sl_slug)
    /\ sl_pc' = "reslugged"
    /\ UNCHANGED <<sl_variant, sl_title, sl_other, sl_edits, sl_slug, sl_slug_other>>
    /\ UNCHANGED <<va_vars, am_vars, vp_vars, st_vars>>

NextSlug == Recase \/ RepeatSeparator \/ ChangeSeparator \/ Slugify \/ Reslugify

SpecSlug == InitSlug /\ [][NextSlug]_vars

----------------------------------------------------------------------------
(* Claims about slugify *)

Letters == {"a", "b", "c", "d", "e", "f", "g", "h", "i", "j", "k", "l", "m",
            "n", "o", "p", "q", "r", "s", "t", "u", "v", "w", "x", "y", "z"}
Digits == {"0", "1", "2", "3", "4", "5", "6", "7", "8", "9"}

\* The shape of a slug: letters, digits (and, when localized, ä and ö) in
\* runs separated by single hyphens, no hyphen first or last.
SlugShape(r, variant) ==
    /\ \A k \in 1..Len(r) :
          \/ r[k] \in Letters \cup Digits
          \/ r[k] = "-"
          \/ variant = "localized" /\ r[k] \in {"ä", "ö"}
    /\ r # <<>> => r[1] # "-" /\ r[Len(r)] # "-"
    /\ \A k \in 1..(Len(r) - 1) : ~(r[k] = "-" /\ r[k + 1] = "-")

\* C4: whatever the title, the result of slugify has the slug shape.
C4_SlugShape ==
    sl_pc \in {"slugged", "reslugged"} =>
       /\ SlugShape(sl_slug, sl_variant)
       /\ SlugShape(sl_slug_other, sl_variant)

C4_Witness ==
    /\ sl_pc = "slugged"
    /\ sl_variant = "localized"
    /\ sl_title = <<"!", "A", " ">>
    /\ sl_other = <<"!", "A", " ", "-">>
    /\ sl_slug = <<"a">>

\* C5: slugify applied to a slug returns the slug, and two titles that
\* differ only in letter case, in repeated whitespace or punctuation, or in
\* which punctuation separates the runs have the same slug.
C5_SlugIdempotent ==
    /\ sl_pc = "reslugged" => sl_reslug = sl_slug
    /\ sl_pc \in {"slugged", "reslugged"} => sl_slug_other = sl_slug

C5_Witness ==
    /\ sl_pc = "reslugged"
    /\ sl_variant = "ascii"
    /\ sl_title = <<"A", " ", "Ä">>
    /\ sl_other = <<"A", " ", " ", "Ä">>
    /\ sl_slug = <<"a">>
    /\ sl_reslug = <<"a">>

----------------------------------------------------------------------------
(* Video assembly: generate_videos.py *)

MaxFiles == 2

\* A directory entry: Path.stem, Path.suffix and Path.is_file().
Entry(stem, suffix, isfile) == [stem |-> stem, suffix |-> suffix, is_file |-> isfile]

\* str.lower() on a file suffix.
LowerSuffix(x) ==
    CASE x = ".MP3" -> ".mp3"
      [] x = ".Mp3" -> ".mp3"
      [] x = ".PNG" -> ".png"
      [] x = ".WAV" -> ".wav"
      [] OTHER -> x

\* What illustrations/ may hold.
IllustrationEntries == {
    Entry("a", ".png", TRUE),
    Entry("b", ".png", TRUE),
    Entry("b", ".jpg", TRUE),
    Entry("B", ".png", TRUE),
    Entry("c", "", FALSE) }

\* What mp3/ may hold.
Mp3Entries == {
    Entry("a", ".wav", TRUE),
    Entry("b", ".mp3", TRUE),
    Entry("B", ".MP3", TRUE),
    Entry("c", ".mp3", TRUE),
    Entry("d", ".mp3", FALSE) }

SubsetsUpTo(S, n) == {T \in SUBSET S : Cardinality(T) <= n}

\* `if f.is_file()` of line 24
IsIllustration(f) == f.is_file

\* Mutation: the suffix is compared as it is written.
IsMp3_CaseSensitive(f) == f.is_file /\ f.suffix = ".mp3"

\* `if f.is_file() and f.suffix.lower() == ".mp3"` of line 25
IsMp3(f) == f.is_file /\ LowerSuffix(f.suffix) = ".mp3"

\* The dictionaries {f.stem: f for f in entries}: one entry per stem, the
\* entry iterdir() yields last among those of the same stem.
StemDicts(entries) ==
    LET stems == {f.stem : f \in entries}
    IN  {d \in [stems -> entries] : \A x \in stems : d[x].stem = x}

\* Python's order on the stems the model uses (code point order).
StemRank(x) ==
    CASE x = "B" -> 1
      [] x = "a" -> 2
      [] x = "b" -> 3
      [] x = "c" -> 4
      [] x = "convo_fi_a" -> 5
      [] x = "convo_fi_b" -> 6
      [] x = "convo_fi_e" -> 7
      [] x = "e" -> 8
      [] x = "podcast_a" -> 9
      [] x = "podcast_b" -> 10
      [] OTHER -> 11

\* sorted(names)
RECURSIVE Sorted(_)
Sorted(names) ==
    IF names = {} THEN <<>>
    ELSE LET least == CHOOSE x \in names : \A y \in names : StemRank(x) <= StemRank(y)
         IN  <<least>> \o Sorted(names \ {least})

\* prepare_image's temp_path name: f"{stem}_resized.png"
ResizedName(name) == <<name, "_resized.png">>

\* What temp/ may be when the run starts: absent, or left behind with a
\* resized image by a run that was interrupted.
TempDirs == {NoDir, Dir(TRUE, {ResizedName("z")})}

\* Path.mkdir(exist_ok=True)
Mkdir(dir) == Dir(TRUE, dir.files)

\* prepare_image and ffmpeg: the video is written ("ok"), Image.open or
\* the conversion raises ("image_error"), or ffmpeg exits non-zero and
\* subprocess.run(check=True) raises ("ffmpeg_error").
AssembleOutcomes == {"ok", "image_error", "ffmpeg_error"}

\* Mutation: no try/except around the body of the loop.
AfterAttempt_Uncaught(outcome) == IF outcome = "ok" THEN "loop" ELSE "crashed"

\* Lines 41-67: whatever the body raised is caught by `except Exception`
\* and the for loop goes on.
AfterAttempt(outcome) == "loop"

ILLUSTRATION_FOLDER == "illustrations"
MP3_FOLDER == "mp3"

InitMatch ==
    /\ am_illustrations \in SubsetsUpTo(IllustrationEntries, MaxFiles)
    /\ am_mp3 \in SubsetsUpTo(Mp3Entries, MaxFiles)
    /\ am_dirs \in SUBSET {ILLUSTRATION_FOLDER, MP3_FOLDER}
    /\ ILLUSTRATION_FOLDER \notin am_dirs => am_illustrations = {}
    /\ MP3_FOLDER \notin am_dirs => am_mp3 = {}
    /\ illustration_files = <<>>
    /\ mp3_files = <<>>
    /\ common_names = {}
    /\ am_todo = <<>>
    /\ am_temp \in TempDirs
    /\ am_videos = {}
    /\ am_attempted = <<>>
    /\ am_pc = "start"
    /\ IdleVoice /\ IdleSlug /\ IdleVideo /\ IdleStages

\* Lines 24-34: the two dictionaries, common_names, and the branch on it.
\* Path.iterdir() of a folder that does not exist raises FileNotFoundError
\* at module level, where nothing catches it.
MatchAssets ==
    /\ am_pc = "start"
    /\ IF {ILLUSTRATION_FOLDER, MP3_FOLDER} \subseteq am_dirs
       THEN /\ illustration_files' \in
                    StemDicts({f \in am_illustrations : IsIllustration(f)})
            /\ mp3_files' \in StemDicts({f \in am_mp3 : IsMp3(f)})
            /\ common_names' = (DOMAIN illustration_files') \cap (DOMAIN mp3_files')
            /\ IF common_names' = {}
               THEN /\ am_pc' = "done"
                    /\ UNCHANGED <<am_todo, am_temp>>
               ELSE /\ am_pc' = "loop"
                    /\ am_todo' = Sorted(common_names')
                    /\ am_temp' = Mkdir(am_temp)
       ELSE /\ am_pc' = "crashed"
            /\ UNCHANGED <<illustration_files, mp3_files, common_names, am_todo,
                           am_temp>>
    /\ UNCHANGED <<am_illustrations, am_mp3, am_dirs, am_videos, am_attempted>>
    /\ UNCHANGED <<va_vars, sl_vars, vp_vars, st_vars>>

\* Lines 36-67: one iteration of `for name in sorted(common_names)`.
\* prepare_image may raise, ffmpeg may exit non-zero; both are caught.
AssembleVideo ==
    /\ am_pc = "loop"
    /\ am_todo # <<>>
    /\ LET name == Head(am_todo)
       IN  /\ am_attempted' = Append(am_attempted, name)
           /\ \E outcome \in AssembleOutcomes :
                 /\ am_temp' = IF outcome = "image_error" THEN Mkdir(am_temp)
                               ELSE Dir(TRUE, am_temp.files \cup {ResizedName(name)})
                 /\ am_videos' = IF outcome = "ok" THEN am_videos \cup {name}
                                 ELSE am_videos
                 /\ am_pc' = AfterAttempt(outcome)
    /\ am_todo' = Tail(am_todo)
    /\ UNCHANGED <<am_illustrations, am_mp3, am_dirs, illustration_files, mp3_files,
                   common_names>>
    /\ UNCHANGED <<va_vars, sl_vars, vp_vars, st_vars>>

\* Lines 69-72: the temp images and the temp folder are removed.
CleanupTemp ==
    /\ am_pc = "loop"
    /\ am_todo = <<>>
    /\ am_temp' = NoDir
    /\ am_pc' = "done"
    /\ UNCHANGED <<am_illustrations, am_mp3, am_dirs, illustration_files, mp3_files,
                   common_names, am_todo, am_videos, am_attempted>>
    /\ UNCHANGED <<va_vars, sl_vars, vp_vars, st_vars>>

NextMatch == MatchAssets \/ AssembleVideo \/ CleanupTemp

SpecMatch == InitMatch /\ [][NextMatch]_vars

----------------------------------------------------------------------------
(* Claims about the asset matcher *)

\* C6 (as claimed): the key set is the intersection of the stems of the
\* files of illustrations/ with the stems of the files of mp3/, and only
\* stems of that set get a video.
C6_StemIntersection ==
    am_pc \in {"loop", "done"} =>
       /\ common_names = {f.stem : f \in {g \in am_illustrations : g.is_file}}
                         \cap {f.stem : f \in {g \in am_mp3 : g.is_file}}
       /\ am_videos \subseteq common_names

\* C6 (amended): the key set is the intersection of the stems of the files
\* of illustrations/ with the stems of the files of mp3/ whose suffix is
\* .mp3 in any letter case; the loop runs once for each key, and only keys
\* get a video.
C6_Mp3StemIntersection ==
    am_pc \in {"loop", "done"} =>
       /\ common_names =
             {f.stem : f \in {g \in am_illustrations : g.is_file}}
             \cap {f.stem : f \in {g \in am_mp3 :
                      g.is_file /\ g.suffix \in {".mp3", ".MP3", ".Mp3"}}}
       /\ am_videos \subseteq common_names
       /\ \A a, b \in 1..Len(am_attempted) : a # b => am_attempted[a] # am_attempted[b]
       /\ Range(am_attempted) \subseteq common_names
       /\ am_pc = "done" => Range(am_attempted) = common_names

C6_Witness ==
    /\ am_pc = "done"
    /\ am_illustrations = {Entry("b", ".png", TRUE), Entry("B", ".png", TRUE)}
    /\ am_mp3 = {Entry("B", ".MP3", TRUE), Entry("c", ".mp3", TRUE)}
    /\ common_names = {"B"}
    /\ am_videos = {"B"}

----------------------------------------------------------------------------
(* Video post-production: generate_subtitled_videos.py *)

MaxVideos == 3

SOURCE_DIR == "output_videos"
OUTPUT_DIR == "final_subtitled_videos"
SUBTITLES_DIR == "subtitles"
TEMP_DIR == "temp_processing"

\* A file name: an optional prefix, the stem and the suffix.
FileName(prefix, stem, suffix) == [prefix |-> prefix, stem |-> stem, suffix |-> suffix]

\* A path: a directory and a file name.
PathIn(dir, name) == [dir |-> dir, name |-> name]

\* What output_videos/ may hold when the run starts.
SourceNames == {
    FileName("", "cafe", ".mp4"),
    FileName("", "park", ".mp4"),
    FileName("", "cafe", ".mov"),
    FileName("", "notes", ".txt") }

\* video_extensions, in the order of the list
video_extensions == <<".mp4", ".mov", ".avi", ".mkv">>

\* All the orders a set can be listed in.
Orderings(S) ==
    {q \in [1..Cardinality(S) -> S] : \A a, b \in 1..Cardinality(S) : a # b => q[a] # q[b]}

\* SOURCE_DIR.glob('*' + ext): the files of that suffix, in directory order.
Glob(files, dir, ext) ==
    Orderings({f \in files : f.dir = dir /\ f.name.suffix = ext})

\* The lists `video_files` can be after the loop over video_extensions.
RECURSIVE GlobAll(_, _)
GlobAll(files, k) ==
    IF k > Len(video_extensions) THEN {<<>>}
    ELSE {a \o b : a \in Glob(files, SOURCE_DIR, video_extensions[k]),
                   b \in GlobAll(files, k + 1)}

\* TEMP_DIR / f"subtitled_{video_file_path.name}"
TempPath(video) ==
    PathIn(TEMP_DIR, FileName("subtitled_", video.name.stem, video.name.suffix))

\* OUTPUT_DIR / video_file_path.name
FinalPath(video) == PathIn(OUTPUT_DIR, video.name)

\* video_file_path.with_suffix(".ass")
AssPath(video) == PathIn(video.dir, FileName(video.name.prefix, video.name.stem, ".ass"))

\* SUBTITLES_DIR / ass_file_in_source.name
TargetAssPath(video) == PathIn(SUBTITLES_DIR, AssPath(video).name)

\* setup_directories: the four mkdir(exist_ok=True)
SetupDirectories(dirs) == dirs \cup {SOURCE_DIR, OUTPUT_DIR, SUBTITLES_DIR, TEMP_DIR}

\* generate_subtitles (subtitle_generator): it returns having written the
\* temp output or not, and having left a sidecar .ass next to the source or not.
GenerateSubtitles(files, video, temp_written, sidecar_written) ==
    files \cup (IF temp_written THEN {TempPath(video)} ELSE {})
          \cup (IF sidecar_written THEN {AssPath(video)} ELSE {})

\* add_background_music (audio_mixer): it writes the final output ("ok"),
\* reports a failure it caught and writes nothing ("failed"), or raises.
MixOutcomes == {"ok", "failed", "raised"}

AddBackgroundMusic(files, video, outcome) ==
    IF outcome = "ok" THEN files \cup {FinalPath(video)} ELSE files

\* cleanup_temp_file (subtitle_generator): the file is deleted if it exists.
CleanupTempFile(files, path) == files \ {path}

\* Mutation: the check never finds the temp output missing.
TempOutputMissing_Never(files, video) == FALSE

\* Mutation: the check is inverted.
TempOutputMissing_Inverted(files, video) == TempPath(video) \in files

\* `if not temp_subtitled_video_path.exists()` of line 75
TempOutputMissing(files, video) == TempPath(video) \notin files

\* Lines 93-95: the sidecar, if there is one, is moved into subtitles/.
MoveSidecar(files, video) ==
    IF AssPath(video) \in files
    THEN (files \ {AssPath(video)}) \cup {TargetAssPath(video)}
    ELSE files

\* Mutation: the temp file is left where it is.
CleanedUp_SidecarOnly(files, video) == MoveSidecar(files, video)

\* Lines 93-99: the sidecar is moved, then cleanup_temp_file is called on
\* the temp path of the video.
CleanedUp(files, video) ==
    CleanupTempFile(MoveSidecar(files, video), TempPath(video))

\* Mutation: `continue` stays at the same video.
ContinueIndex_Retry(i) == i

\* `continue` of line 77: the for loop takes the next video.
ContinueIndex(i) == i + 1

\* shutil.rmtree(dir)
RmTree(files, dir) == {f \in files : f.dir # dir}

\* Mutation: the loop ends after the first item.
AfterItem_Stop == "finish"

\* The pc after the body of the loop has ended for the item at vp_idx.
AfterItem == IF vp_idx < Len(video_files) THEN "subtitle" ELSE "finish"

InitVideo ==
    /\ \E names \in SubsetsUpTo(SourceNames, MaxVideos) :
          vp_files = {PathIn(SOURCE_DIR, n) : n \in names}
    /\ vp_dirs \in {{}, {SOURCE_DIR}}
    /\ vp_dirs = {} => vp_files = {}
    /\ video_files = <<>>
    /\ vp_idx = 1
    /\ vp_pc = "start"
    /\ vp_sub_calls = <<>>
    /\ vp_mix_calls = <<>>
    /\ vp_no_temp = {}
    /\ vp_mix_failed = {}
    /\ IdleVoice /\ IdleSlug /\ IdleMatch /\ IdleStages

\* Lines 35-47: setup_directories, the globs and the early return.
StartBatch ==
    /\ vp_pc = "start"
    /\ vp_dirs' = SetupDirectories(vp_dirs)
    /\ video_files' \in GlobAll(vp_files, 1)
    /\ vp_pc' = IF video_files' = <<>> THEN "returned" ELSE "subtitle"
    /\ UNCHANGED <<vp_files, vp_idx, vp_sub_calls, vp_mix_calls, vp_no_temp,
                   vp_mix_failed>>
    /\ UNCHANGED <<va_vars, sl_vars, am_vars, st_vars>>

\* Lines 52-77: the paths, the call of generate_subtitles and the check
\* of its temp output, with the `continue` when it is missing.
SubtitleStep ==
    /\ vp_pc = "subtitle"
    /\ LET video == video_files[vp_idx]
       IN  /\ \E temp_written, sidecar_written \in BOOLEAN :
                 /\ vp_files' = GenerateSubtitles(vp_files, video, temp_written,
                                                  sidecar_written)
                 /\ vp_no_temp' = IF temp_written THEN vp_no_temp
                                  ELSE vp_no_temp \cup {video}
           /\ vp_sub_calls' = Append(vp_sub_calls, video)
           /\ IF TempOutputMissing(vp_files', video)
              THEN /\ vp_pc' = AfterItem
                   /\ vp_idx' = ContinueIndex(vp_idx)
              ELSE /\ vp_pc' = "mix"
                   /\ vp_idx' = vp_idx
    /\ UNCHANGED <<vp_dirs, video_files, vp_mix_calls, vp_mix_failed>>
    /\ UNCHANGED <<va_vars, sl_vars, am_vars, st_vars>>

\* Lines 79-89: the call of add_background_music. Nothing catches what it
\* raises, so an exception ends batch_process_videos.
MixStep ==
    /\ vp_pc = "mix"
    /\ LET video == video_files[vp_idx]
       IN  /\ vp_mix_calls' = Append(vp_mix_calls, video)
           /\ \E outcome \in MixOutcomes :
                 /\ vp_files' = AddBackgroundMusic(vp_files, video, outcome)
                 /\ vp_mix_failed' = IF outcome = "failed"
                                     THEN vp_mix_failed \cup {video}
                                     ELSE vp_mix_failed
                 /\ vp_pc' = IF outcome = "raised" THEN "crashed" ELSE "cleanup"
    /\ UNCHANGED <<vp_dirs, video_files, vp_idx, vp_sub_calls, vp_no_temp>>
    /\ UNCHANGED <<va_vars, sl_vars, am_vars, st_vars>>

\* Lines 91-106: the sidecar is moved, the temp file deleted, and the loop
\* goes to the next video.
CleanupStep ==
    /\ vp_pc = "cleanup"
    /\ LET video == video_files[vp_idx]
       IN  vp_files' = CleanedUp(vp_files, video)
    /\ vp_pc' = AfterItem
    /\ vp_idx' = vp_idx + 1
    /\ UNCHANGED <<vp_dirs, video_files, vp_sub_calls, vp_mix_calls, vp_no_temp,
                   vp_mix_failed>>
    /\ UNCHANGED <<va_vars, sl_vars, am_vars, st_vars>>

\* Lines 109-119: the temp directory is removed and the function returns.
FinishBatch ==
    /\ vp_pc = "finish"
    /\ IF TEMP_DIR \in vp_dirs
       THEN /\ vp_dirs' = vp_dirs \ {TEMP_DIR}
            /\ vp_files' = RmTree(vp_files, TEMP_DIR)
       ELSE UNCHANGED <<vp_dirs, vp_files>>
    /\ vp_pc' = "returned"
    /\ UNCHANGED <<video_files, vp_idx, vp_sub_calls, vp_mix_calls, vp_no_temp,
                   vp_mix_failed>>
    /\ UNCHANGED <<va_vars, sl_vars, am_vars, st_vars>>

NextVideo == StartBatch \/ SubtitleStep \/ MixStep \/ CleanupStep \/ FinishBatch

SpecVideo == InitVideo /\ [][NextVideo]_vars

\* The interpreter keeps running batch_process_videos until it ends.
SpecVideoLive == SpecVideo /\ WF_vars(NextVideo)

----------------------------------------------------------------------------
(* Claims about video post-production *)

\* batch_process_videos has finished with item k: the loop has gone past
\* it, or an exception raised while it was in work has ended the function.
Finished(k) ==
    /\ k \in 1..Len(video_files)
    /\ \/ k < vp_idx
       \/ vp_pc = "crashed" /\ k = vp_idx

\* Item k is the one batch_process_videos finished with last.
JustFinished(k) ==
    /\ k \in 1..Len(video_files)
    /\ \/ vp_pc \in {"subtitle", "finish", "returned"} /\ k = vp_idx - 1
       \/ vp_pc = "crashed" /\ k = vp_idx

\* How often x occurs in the sequence q.
Count(q, x) == Cardinality({k \in 1..Len(q) : q[k] = x})

\* C7 (as claimed): once batch_process_videos has finished with an item, on
\* whatever exit path, the item's temp subtitled file does not exist.
C7_TempFileGone ==
    \A k \in 1..Len(video_files) :
       Finished(k) => TempPath(video_files[k]) \notin vp_files

\* C8: a video whose subtitling returned without a temp output is never
\* handed to add_background_music, gets no file in final_subtitled_videos,
\* is submitted to generate_subtitles once only, and the loop goes on: every
\* video before the cursor, and on return every video, has been submitted.
C8_AbortIsolation ==
    \A k \in 1..Len(video_files) :
       video_files[k] \in vp_no_temp =>
          /\ Count(vp_mix_calls, video_files[k]) = 0
          /\ FinalPath(video_files[k]) \notin vp_files
          /\ Count(vp_sub_calls, video_files[k]) = 1
          /\ vp_idx > k
          /\ vp_pc \in {"subtitle", "mix", "cleanup"} =>
                \A j \in (k + 1)..vp_idx : Count(vp_sub_calls, video_files[j]) <= 1
          /\ \A j \in (k + 1)..Len(video_files) :
                (j < vp_idx \/ vp_pc = "returned") =>
                   Count(vp_sub_calls, video_files[j]) = 1

C8_Witness ==
    /\ vp_pc = "returned"
    /\ Len(video_files) = 2
    /\ video_files[1] \in vp_no_temp
    /\ video_files[2] \notin vp_no_temp
    /\ vp_mix_calls = <<video_files[2]>>
    /\ FinalPath(video_files[2]) \in vp_files
    /\ FinalPath(video_files[1]) \notin vp_files

\* C9 (as claimed): when batch_process_videos returns, whatever the set of
\* source videos, temp_processing does not exist.
C9_TempDirRemoved ==
    vp_pc = "returned" => TEMP_DIR \notin vp_dirs

\* C10 (as claimed): when batch_process_videos has finished with an item, no
\* sidecar .ass of that item remains next to the source video.
C10_SidecarMoved ==
    \A k \in 1..Len(video_files) :
       JustFinished(k) => AssPath(video_files[k]) \notin vp_files

----------------------------------------------------------------------------
(* Script stage: generate_scripts.py *)

MaxScriptIdeas == 2

Kahvilassa == <<"K", "a", "h", "v", "i", "l", "a", "s", "s", "a">>

\* An idea of the input file: the keys it has, its title and what its
\* 'characters' key holds: "list" (characters with every key the prompt
\* reads), "no_name" (a character without 'name') or "empty" ([]).
ScriptIdea(keys, title, characters) ==
    [keys |-> keys, title |-> title, characters |-> characters]

ScriptIdeas == {
    ScriptIdea({"title", "characters"}, Kahvilassa, "list"),
    ScriptIdea({"title", "characters"}, <<"A", " ", "b">>, "list"),
    ScriptIdea({"title", "characters"}, <<"a", "-", "b">>, "list"),
    ScriptIdea({"title", "characters"}, <<"Ä", "ö">>, "empty"),
    ScriptIdea({"title"}, <<"b", "1">>, "empty"),
    ScriptIdea({"title", "characters"}, <<"A", "b">>, "no_name"),
    ScriptIdea({"characters"}, <<>>, "list") }

\* What the text-generation collaborator answers to one request.
Responses == {"dialogue", "api_error", "not_json", "no_dialogue_key", "not_object"}

\* idea['title'] of line 271 raises KeyError when the key is absent.
TitleRaises(idea) == "title" \notin idea.keys

\* Lines 37-48 and 135-142: `if not characters: raise ValueError`, and the
\* subscripts c['name'] of the character map.
GeneratorRaises(idea) ==
    LET characters == IF "characters" \in idea.keys THEN idea.characters ELSE "empty"
    IN  characters = "empty" \/ characters = "no_name"

\* What a generator returns: a parsed JSON value, or the result that
\* carries the error.
ConversationData(kind, dialogue_list, error) ==
    [kind |-> kind, dialogue_list |-> dialogue_list, error |-> error]

\* Lines 100-129, for an idea that passed the checks of lines 37-48.
generate_conversation(idea, response) ==
    CASE response = "api_error" -> ConversationData("dict", "empty", "API Error")
      [] response = "not_json" -> ConversationData("dict", "empty", "json_string")
      [] response = "dialogue" -> ConversationData("dict", "lines", Missing)
      [] response = "no_dialogue_key" -> ConversationData("dict", Missing, Missing)
      [] OTHER -> ConversationData("list", Missing, Missing)

\* Lines 186-217, for an idea that passed the checks of lines 135-142.
generate_podcast_script(idea, response) ==
    CASE response = "api_error" -> ConversationData("dict", "empty", "API Error")
      [] response = "not_json" -> ConversationData("dict", "empty", "json_string")
      [] response = "dialogue" -> ConversationData("dict", "lines", Missing)
      [] response = "no_dialogue_key" -> ConversationData("dict", Missing, Missing)
      [] OTHER -> ConversationData("list", Missing, Missing)

\* Line 268: generator_func
generator_func(script_type, idea, response) ==
    IF script_type = "conversation"
    THEN generate_conversation(idea, response)
    ELSE generate_podcast_script(idea, response)

\* Mutation: every script goes to the conversation folder.
Folder_Same(script_type) == "scripts"

\* Lines 226-231: the folder of a script type.
Folder(script_type) ==
    IF script_type = "podcast" THEN "podcast_scripts" ELSE "scripts"

ScriptFolders == {"scripts", "podcast_scripts"}

\* A file name made of a base and an extension: f"{slug}.json"
JsonName(base) == [base |-> base, ext |-> ".json"]

\* The content of a script file: what it parses to ("object", "array" or
\* "invalid" when it is no JSON), the keys of the object and the value of
\* its dialogue_list ("lines", "empty" for [], "null" or Missing).
Content(kind, keys, dialogue_list) ==
    [kind |-> kind, keys |-> keys, dialogue_list |-> dialogue_list]

\* Lines 238-245: dialogue_list = conversation_data.get('dialogue_list', [])
\* and the three keys of full_json_data.
full_json_data(conversation_data) ==
    Content("object", {"metadata", "idea", "dialogue_list"},
            Get(conversation_data.dialogue_list, "empty"))

\* Line 233: os.makedirs(folder, exist_ok=True)
MakeDirs(fs, folder) == [fs EXCEPT ![folder].exists = TRUE]

\* open(path, "w") and json.dump: the file of that name is replaced.
WriteFile(files, name, content) ==
    {f \in files : f.name # name} \cup {[name |-> name, content |-> content]}

\* Lines 235-236: json_path
json_path(script_type, title) == PathIn(Folder(script_type), JsonName(slugify(title)))

\* Lines 222-251: save_scripts, for a conversation_data that is a dict.
save_scripts(fs, title, script_type, conversation_data) ==
    LET path == json_path(script_type, title)
        made == MakeDirs(fs, path.dir)
    IN  [made EXCEPT ![path.dir].files =
            WriteFile(@, path.name, full_json_data(conversation_data))]

\* Mutation: the argument is compared as it was typed.
IsPodcastArg_CaseSensitive(argv) == argv # Missing /\ argv = "podcast"

\* Line 284: len(sys.argv) > 1 and sys.argv[1].lower() == 'podcast'
IsPodcastArg(argv) == argv # Missing /\ Lower(argv) = "podcast"

\* Lines 284-289: the arguments main passes to process_ideas_file.
IdeasFileOf(argv) == IF IsPodcastArg(argv) THEN "podcast_ideas.json" ELSE "ideas.json"
ScriptTypeOf(argv) == IF IsPodcastArg(argv) THEN "podcast" ELSE "conversation"

\* An input file: absent, not JSON, or holding a list of ideas.
IdeasFile(status, ideas) == [status |-> status, ideas |-> ideas]

Args == {Missing, "podcast", "PODCAST", "all", "ALL"}

IdleCore == IdleVoice /\ IdleSlug /\ IdleMatch /\ IdleVideo /\ IdleCleanup

\* What the two input files are when a run starts.
IdeaFileStates ==
    {<<"ok", "ok">>, <<"absent", "ok">>, <<"ok", "absent">>, <<"bad_json", "ok">>,
     <<"ok", "bad_json">>, <<"absent", "absent">>}

InitScriptStage ==
    /\ sc_argv \in Args
    /\ \E ideas \in SeqsUpTo(ScriptIdeas, MaxScriptIdeas), st \in IdeaFileStates :
          idea_files =
              [f \in {"ideas.json", "podcast_ideas.json"} |->
                  LET status == IF f = "ideas.json" THEN st[1] ELSE st[2]
                  IN  IdeasFile(status, IF status = "ok" THEN ideas ELSE <<>>)]
    /\ sc_script_type = "idle"
    /\ sc_ideas = <<>>
    /\ sc_idx = 1
    /\ sc_pc = "start"
    /\ sc_outcomes = <<>>
    /\ sc_writes = <<>>
    /\ sc_reads = {}
    /\ \E exists \in BOOLEAN : fs_scripts = [f \in ScriptFolders |-> Dir(exists, {})]
    /\ fs_mp3 = {}
    /\ fs_illustrations = {}

InitScript == InitScriptStage /\ IdleTts /\ IdleIllustration /\ IdleCore

\* Lines 282-289 and 253-268: main chooses the input file, and
\* process_ideas_file reads it; a file that is absent or no JSON is
\* reported and the function returns.
ScriptMain ==
    /\ sc_pc = "start"
    /\ LET filename == IdeasFileOf(sc_argv)
           file == idea_files[filename]
       IN  /\ sc_script_type' = ScriptTypeOf(sc_argv)
           /\ sc_reads' = sc_reads \cup {filename}
           /\ IF file.status # "ok"
              THEN /\ sc_ideas' = <<>>
                   /\ sc_pc' = "returned"
              ELSE /\ sc_ideas' = file.ideas
                   /\ sc_pc' = IF file.ideas = <<>> THEN "returned" ELSE "loop"
    /\ UNCHANGED <<sc_argv, idea_files, sc_idx, sc_outcomes, sc_writes, fs_vars>>
    /\ UNCHANGED <<tt_vars, il_vars, core_vars>>

\* Lines 270-277: the body of `for idea in ideas`. Nothing in the loop
\* catches what the generator or save_scripts raises.
ProcessIdea ==
    /\ sc_pc = "loop"
    /\ LET idea == sc_ideas[sc_idx]
       IN  IF TitleRaises(idea) \/ GeneratorRaises(idea)
           THEN /\ sc_outcomes' = Append(sc_outcomes, "raised")
                /\ sc_pc' = "crashed"
                /\ UNCHANGED <<fs_scripts, sc_writes, sc_idx>>
           ELSE \E response \in Responses :
                   LET conversation_data ==
                           generator_func(sc_script_type, idea, response)
                   IN  /\ sc_outcomes' = Append(sc_outcomes, response)
                       /\ IF conversation_data.kind = "dict"
                          THEN /\ fs_scripts' = save_scripts(fs_scripts, idea.title,
                                                    sc_script_type, conversation_data)
                               /\ sc_writes' = Append(sc_writes,
                                     [idx |-> sc_idx,
                                      path |-> json_path(sc_script_type, idea.title)])
                               /\ sc_idx' = sc_idx + 1
                               /\ sc_pc' = IF sc_idx < Len(sc_ideas)
                                           THEN "loop" ELSE "returned"
                          ELSE /\ fs_scripts' = MakeDirs(fs_scripts,
                                                         Folder(sc_script_type))
                               /\ sc_pc' = "crashed"
                               /\ UNCHANGED <<sc_writes, sc_idx>>
    /\ UNCHANGED <<sc_argv, idea_files, sc_script_type, sc_ideas, sc_reads,
                   fs_mp3, fs_illustrations>>
    /\ UNCHANGED <<tt_vars, il_vars, core_vars>>

NextScript == ScriptMain \/ ProcessIdea

SpecScript == InitScript /\ [][NextScript]_vars

----------------------------------------------------------------------------
(* Claims about the script stage *)

\* The outcomes that are a failure of the generation of one idea.
ScriptFailures == {"api_error", "not_json", "not_object", "raised"}

\* The outcomes after which process_ideas_file calls save_scripts with a dict.
SavedOutcomes == {"dialogue", "api_error", "not_json", "no_dialogue_key"}

\* The file at a path of the script folders.
FileAt(fs, path) == CHOOSE f \in fs[path.dir].files : f.name = path.name

\* The writes save_scripts made for idea k.
WritesOf(k) == {n \in 1..Len(sc_writes) : sc_writes[n].idx = k}

\* C11: a failure while generating the script of one idea never stops the
\* loop of process_ideas_file: once the stage has ended, every idea after a
\* failed one has been taken up by the loop, and has been persisted when
\* its own generation returned a result.
C11_FailureIsolation ==
    sc_pc \in {"returned", "crashed"} =>
        \A k \in 1..Len(sc_outcomes) :
            sc_outcomes[k] \in ScriptFailures =>
                \A m \in (k + 1)..Len(sc_ideas) :
                    /\ m <= Len(sc_outcomes)
                    /\ sc_outcomes[m] \in SavedOutcomes => WritesOf(m) # {}

\* The failures of the transform that the generators catch.
TransformFailures == {"api_error", "not_json"}

\* C12: when the transform of an idea fails (API error or non-JSON
\* response), the script file persisted for it carries an error field.
C12_ErrorMarkerPersisted ==
    \A n \in 1..Len(sc_writes) :
        LET w == sc_writes[n]
            kept == \A later \in (n + 1)..Len(sc_writes) :
                        sc_writes[later].path # w.path
        IN  (sc_outcomes[w.idx] \in TransformFailures /\ kept) =>
                "error" \in FileAt(fs_scripts, w.path).content.keys

\* C14: every idea the script stage has processed has exactly one script
\* file written, at <folder>/<slugify(title)>.json, where the folder is
\* scripts for conversations and podcast_scripts for podcasts and exists
\* after the write; the title Kahvilassa gives scripts/kahvilassa.json.
C14_SlugKeyedPersistence ==
    /\ \A n \in 1..Len(sc_writes) :
          LET w == sc_writes[n]
              title == sc_ideas[w.idx].title
              folder == IF sc_script_type = "podcast"
                        THEN "podcast_scripts" ELSE "scripts"
          IN  /\ w.path = PathIn(folder, JsonName(slugify(title)))
              /\ fs_scripts[folder].exists
              /\ \E f \in fs_scripts[folder].files : f.name = w.path.name
              /\ title = Kahvilassa /\ sc_script_type = "conversation" =>
                    w.path = PathIn("scripts",
                        JsonName(<<"k", "a", "h", "v", "i", "l", "a", "s", "s", "a">>))
    /\ \A k \in 1..(sc_idx - 1) : Cardinality(WritesOf(k)) = 1
    /\ \A k \in sc_idx..Len(sc_ideas) : WritesOf(k) = {}

\* Two ideas have been persisted by a conversation run that found no
\* scripts folder, the first of them titled Kahvilassa.
C14_Witness ==
    /\ sc_pc = "returned"
    /\ sc_script_type = "conversation"
    /\ Len(sc_writes) = 2
    /\ sc_ideas[1].title = Kahvilassa
    /\ sc_ideas[2].title = <<"A", " ", "b">>
    /\ Cardinality(fs_scripts["scripts"].files) = 2
    /\ ~fs_scripts["podcast_scripts"].exists

----------------------------------------------------------------------------
(* Speech stage: tts_generator.py *)

MaxScripts == 2

CONVERSATION_SCRIPTS_DIR == "scripts"
PODCAST_SCRIPTS_DIR == "podcast_scripts"

\* A file of a script folder.
ScriptFile(name, content) == [name |-> name, content |-> content]

\* The keys of a file save_scripts wrote.
SavedKeys == {"metadata", "idea", "dialogue_list"}

\* What scripts/ may hold when the speech stage starts: a script with
\* dialogue lines, a script with an empty dialogue_list, a file that is not
\* JSON, a JSON array, an object without dialogue_list, an object whose
\* dialogue_list is null, and a file of another extension.
ScriptFileChoices == {
    ScriptFile(JsonName(<<"a">>), Content("object", SavedKeys, "lines")),
    ScriptFile(JsonName(<<"b">>), Content("object", SavedKeys, "empty")),
    ScriptFile(JsonName(<<"c">>), Content("invalid", {}, Missing)),
    ScriptFile(JsonName(<<"d">>), Content("array", {}, Missing)),
    ScriptFile(JsonName(<<"e">>), Content("object", {"metadata", "idea"}, Missing)),
    ScriptFile(JsonName(<<"f">>), Content("object", SavedKeys, "null")),
    ScriptFile([base |-> <<"a">>, ext |-> ".txt"], Content("invalid", {}, Missing)) }

\* What podcast_scripts/ may hold when the speech stage starts.
PodcastFolderChoices == {
    Dir(FALSE, {}),
    Dir(TRUE, {}),
    Dir(TRUE, {ScriptFile(JsonName(<<"a">>), Content("object", SavedKeys, "lines"))}),
    Dir(TRUE, {ScriptFile(JsonName(<<"a">>), Content("object", SavedKeys, "lines")),
               ScriptFile(JsonName(<<"b">>), Content("object", SavedKeys, "empty"))}) }

\* f.endswith(".json")
EndsWithJson(name) == name.ext = ".json"

\* os.path.splitext(filename)[0]; a name that is only ".json" has no
\* extension to split off.
BaseName(name) == IF name.base = <<>> THEN <<name.ext>> ELSE name.base

\* Line 156: the list script_files, in the order os.listdir gives.
ScriptFilesOf(dir) == Orderings({f \in dir.files : EndsWithJson(f.name)})

\* Line 110: data.get("dialogue_list") of a JSON object.
DialogueListOf(content) ==
    IF "dialogue_list" \in content.keys THEN content.dialogue_list ELSE "null"

\* `not dialogue_list`: None and [] are false.
Falsy(dialogue_list) == dialogue_list \in {"null", "empty"}

\* Mutation: the dialogue_list is returned without looking at it.
load_dialogue_data_Unchecked(content) ==
    CASE content.kind = "invalid" -> "None"
      [] content.kind = "array" -> "AttributeError"
      [] OTHER -> "lines"

\* Lines 104-118: the dialogue_list; "None" after one of the three caught
\* exceptions; "AttributeError" when the JSON value has no .get, which
\* nothing catches.
load_dialogue_data(content) ==
    CASE content.kind = "invalid" -> "None"
      [] content.kind = "array" -> "AttributeError"
      [] OTHER -> IF Falsy(DialogueListOf(content)) THEN "None"
                  ELSE DialogueListOf(content)

\* Line 164: output_filename = f"{script_type}_{base_name}.mp3"
output_filename(script_type, name) ==
    FileName(IF script_type = "podcast" THEN "podcast_" ELSE "convo_fi_",
             BaseName(name), ".mp3")

\* What the speech collaborator does with one dialogue: the audio is
\* written, or generate_and_save_audio catches what was raised.
TtsOutcomes == {"saved", "error"}

\* Lines 121-142: generate_and_save_audio
generate_and_save_audio(mp3, name, outcome) ==
    IF outcome = "saved" THEN mp3 \cup {name} ELSE mp3

\* Lines 185-195: the calls of process_scripts_directory main makes.
TtsPlan(argv) ==
    IF argv # Missing /\ Lower(argv) = "podcast"
    THEN << <<PODCAST_SCRIPTS_DIR, "podcast">> >>
    ELSE IF argv # Missing /\ Lower(argv) = "all"
         THEN << <<CONVERSATION_SCRIPTS_DIR, "convo_fi">>,
                 <<PODCAST_SCRIPTS_DIR, "podcast">> >>
         ELSE << <<CONVERSATION_SCRIPTS_DIR, "convo_fi">> >>

\* Where main is once a call of process_scripts_directory has returned.
AfterDir(plan) == IF plan = <<>> THEN "returned" ELSE "main"

\* The output file a stage has written for a script.
Saved(item, file) == [dir |-> item.dir, name |-> item.name, file |-> file]

\* The script stage is not running.
ScriptStageOver == sc_pc \in {"idle", "returned", "crashed"}

InitTtsStage ==
    /\ tt_argv \in Args
    /\ tt_key \in BOOLEAN
    /\ tt_plan = <<>>
    /\ tt_dir = "idle"
    /\ tt_type = "idle"
    /\ tt_files = <<>>
    /\ tt_pc = "start"
    /\ tt_calls = {}
    /\ tt_seen = {}
    /\ tt_reads = {}
    /\ tt_saved = {}

InitTts ==
    /\ InitTtsStage
    /\ \E files \in SubsetsUpTo(ScriptFileChoices, MaxScripts),
          exists \in BOOLEAN, podcast \in PodcastFolderChoices :
          fs_scripts = [f \in ScriptFolders |->
                           IF f = PODCAST_SCRIPTS_DIR THEN podcast
                           ELSE Dir(exists, IF exists THEN files ELSE {})]
    /\ fs_mp3 = {}
    /\ fs_illustrations = {}
    /\ IdleScript /\ IdleIllustration /\ IdleCore

\* Lines 174-195: main. Without the API key nothing is processed.
TtsMain ==
    /\ tt_pc = "start"
    /\ ScriptStageOver
    /\ IF tt_key
       THEN /\ tt_plan' = TtsPlan(tt_argv)
            /\ tt_pc' = "main"
       ELSE /\ tt_plan' = <<>>
            /\ tt_pc' = "returned"
    /\ UNCHANGED <<tt_argv, tt_key, tt_dir, tt_type, tt_files, tt_calls, tt_seen,
                   tt_reads, tt_saved>>
    /\ UNCHANGED <<sc_vars, fs_vars, il_vars, core_vars>>

\* Lines 145-158: process_scripts_directory up to its loop: a folder that
\* is absent or holds no .json file is reported and the call returns.
TtsOpenDir ==
    /\ tt_pc = "main"
    /\ LET call == Head(tt_plan)
           dir == fs_scripts[call[1]]
       IN  /\ tt_dir' = call[1]
           /\ tt_type' = call[2]
           /\ tt_plan' = Tail(tt_plan)
           /\ tt_reads' = tt_reads \cup {call[1]}
           /\ IF ~dir.exists
              THEN /\ tt_files' = <<>>
                   /\ tt_pc' = AfterDir(tt_plan')
              ELSE /\ tt_files' \in ScriptFilesOf(dir)
                   /\ tt_pc' = IF tt_files' = <<>> THEN AfterDir(tt_plan')
                               ELSE "loop"
    /\ UNCHANGED <<tt_argv, tt_key, tt_calls, tt_seen, tt_saved>>
    /\ UNCHANGED <<sc_vars, fs_vars, il_vars, core_vars>>

\* Lines 160-169: the body of `for filename in script_files`.
TtsFile ==
    /\ tt_pc = "loop"
    /\ LET file == Head(tt_files)
           dialogue_list == load_dialogue_data(file.content)
           item == [dir |-> tt_dir, name |-> file.name]
       IN  /\ tt_seen' = tt_seen \cup {item}
           /\ IF dialogue_list = "AttributeError"
              THEN /\ tt_pc' = "crashed"
                   /\ UNCHANGED <<tt_files, tt_calls, fs_mp3, tt_saved>>
              ELSE /\ tt_files' = Tail(tt_files)
                   /\ tt_pc' = IF tt_files' = <<>> THEN AfterDir(tt_plan) ELSE "loop"
                   /\ IF dialogue_list # "None" /\ ~Falsy(dialogue_list)
                      THEN /\ tt_calls' = tt_calls \cup {item}
                           /\ \E outcome \in TtsOutcomes :
                                 /\ fs_mp3' = generate_and_save_audio(fs_mp3,
                                       output_filename(tt_type, file.name), outcome)
                                 /\ tt_saved' =
                                       IF outcome = "saved"
                                       THEN tt_saved \cup
                                              {Saved(item, output_filename(tt_type,
                                                                           file.name))}
                                       ELSE tt_saved
                      ELSE UNCHANGED <<tt_calls, fs_mp3, tt_saved>>
    /\ UNCHANGED <<tt_argv, tt_key, tt_plan, tt_dir, tt_type, tt_reads>>
    /\ UNCHANGED <<sc_vars, fs_scripts, fs_illustrations, il_vars, core_vars>>

NextTts == TtsMain \/ TtsOpenDir \/ TtsFile

SpecTts == InitTts /\ [][NextTts]_vars

----------------------------------------------------------------------------
(* Illustration stage: generate_illustrations.py *)

INPUT_DIR == "scripts"

\* Lines 178-206: create_generic_prompt. A JSON value without .get, or a
\* dialogue_list that is null, makes it raise; nothing catches that.
create_generic_prompt(content) ==
    CASE content.kind = "array" -> "AttributeError"
      [] "dialogue_list" \in content.keys /\ content.dialogue_list = "null" ->
            "TypeError"
      [] OTHER -> "prompt"

\* What the image collaborator answers: a part with image data, or nothing
\* usable (an API error, no candidates, no content, no image part).
ImageOutcomes == {"image", "nothing"}

\* Mutation: the image is named after the script alone.
illustration_filename_Bare(name) == FileName("", BaseName(name), ".png")

\* Lines 303-305: "convo_fi_" + base_filename + ".png"
illustration_filename(name) == FileName("convo_fi_", BaseName(name), ".png")

InitIllustrationStage ==
    /\ il_files = <<>>
    /\ il_pc = "start"
    /\ il_calls = {}
    /\ il_seen = {}
    /\ il_saved = {}

\* Lines 317-328: main creates scripts/ when it is absent and lists its
\* .json files; without any it returns.
IllustrationMain ==
    /\ il_pc = "start"
    /\ ScriptStageOver
    /\ tt_pc \in {"idle", "returned", "crashed"}
    /\ fs_scripts' = MakeDirs(fs_scripts, INPUT_DIR)
    /\ il_files' \in ScriptFilesOf(fs_scripts'[INPUT_DIR])
    /\ il_pc' = IF il_files' = <<>> THEN "returned" ELSE "loop"
    /\ UNCHANGED <<il_calls, il_seen, il_saved, fs_mp3, fs_illustrations>>
    /\ UNCHANGED <<sc_vars, tt_vars, core_vars>>

\* Lines 330-332 and 221-315: generate_illustration_from_json for one file.
\* A file that is no JSON is reported and skipped; every other script gets
\* a prompt and a request, whatever its dialogue_list holds.
IllustrationFile ==
    /\ il_pc = "loop"
    /\ LET file == Head(il_files)
           prompt == create_generic_prompt(file.content)
           after == IF Tail(il_files) = <<>> THEN "returned" ELSE "loop"
           item == [dir |-> INPUT_DIR, name |-> file.name]
       IN  /\ il_seen' = il_seen \cup {file.name}
           /\ IF file.content.kind = "invalid"
              THEN /\ il_files' = Tail(il_files)
                   /\ il_pc' = after
                   /\ UNCHANGED <<il_calls, il_saved, fs_illustrations>>
              ELSE IF prompt # "prompt"
                   THEN /\ il_pc' = "crashed"
                        /\ UNCHANGED <<il_files, il_calls, il_saved, fs_illustrations>>
                   ELSE /\ il_files' = Tail(il_files)
                        /\ il_pc' = after
                        /\ il_calls' = il_calls \cup {file.name}
                        /\ \E outcome \in ImageOutcomes :
                              IF outcome = "image"
                              THEN /\ fs_illustrations' = fs_illustrations \cup
                                          {illustration_filename(file.name)}
                                   /\ il_saved' = il_saved \cup
                                          {Saved(item, illustration_filename(file.name))}
                              ELSE UNCHANGED <<fs_illustrations, il_saved>>
    /\ UNCHANGED <<fs_scripts, fs_mp3>>
    /\ UNCHANGED <<sc_vars, tt_vars, core_vars>>

NextIllustration == IllustrationMain \/ IllustrationFile

----------------------------------------------------------------------------
(* The stages run one after the other: scripts, speech, illustrations *)

\* The ideas of a conversation run of the three stages.
PipelineIdeas == {
    ScriptIdea({"title", "characters"}, Kahvilassa, "list"),
    ScriptIdea({"title", "characters"}, <<"A", " ", "b">>, "list"),
    ScriptIdea({"title", "characters"}, <<"Ä", "ö">>, "empty") }

InitPipeline ==
    /\ InitScriptStage
    /\ sc_argv = Missing
    /\ idea_files["ideas.json"].status = "ok"
    /\ idea_files["podcast_ideas.json"].status = "absent"
    /\ Range(idea_files["ideas.json"].ideas) \subseteq PipelineIdeas
    /\ ~fs_scripts[INPUT_DIR].exists
    /\ InitTtsStage
    /\ tt_argv = Missing
    /\ tt_key
    /\ InitIllustrationStage
    /\ IdleCore

NextPipeline == NextScript \/ NextTts \/ NextIllustration

SpecPipeline == InitPipeline /\ [][NextPipeline]_vars

----------------------------------------------------------------------------
(* Either batch program is run on its own *)

InitStages == InitScript \/ InitTts

NextStages == NextScript \/ NextTts

SpecStages == InitStages /\ [][NextStages]_vars

----------------------------------------------------------------------------
(* Claims about the speech and illustration stages *)

\* The slugs of the ideas whose script generation failed and for which no
\* idea of the same slug got its dialogue.
FailedSlugs ==
    {slugify(sc_ideas[k].title) :
        k \in {n \in 1..Len(sc_outcomes) :
                 /\ sc_outcomes[n] \in ScriptFailures
                 /\ \A m \in 1..Len(sc_outcomes) :
                       sc_outcomes[m] = "dialogue" =>
                           slugify(sc_ideas[m].title) # slugify(sc_ideas[n].title)}}

\* C13: for an idea whose script generation failed no later stage makes an
\* artifact: the speech stage writes no audio file, the illustration stage
\* writes no image, and so no video can be assembled for that slug.
C13_FailedItemsSkipped ==
    \A slug \in FailedSlugs :
        /\ FileName("convo_fi_", slug, ".mp3") \notin fs_mp3
        /\ FileName("convo_fi_", slug, ".png") \notin fs_illustrations

\* The file parses as JSON and has a non-empty dialogue_list.
HasDialogue(content) ==
    /\ content.kind # "invalid"
    /\ "dialogue_list" \in content.keys
    /\ content.dialogue_list = "lines"

\* C16: process_scripts_directory invokes the speech collaborator for a
\* script file exactly when the file parses as JSON and has a non-empty
\* dialogue_list; for any other script file no audio file is written; and
\* every script of a folder the stage went into is processed.
C16_MalformedScripts ==
    /\ \A item \in tt_seen :
          LET content == FileAt(fs_scripts, item).content
              audio == FileName(IF item.dir = "podcast_scripts"
                                THEN "podcast_" ELSE "convo_fi_",
                                BaseName(item.name), ".mp3")
          IN  /\ item \in tt_calls <=> HasDialogue(content)
              /\ ~HasDialogue(content) => audio \notin fs_mp3
    /\ tt_pc \in {"returned", "crashed"} =>
          \A dir \in tt_reads :
              \A f \in fs_scripts[dir].files :
                  f.name.ext = ".json" => [dir |-> dir, name |-> f.name] \in tt_seen

\* The argument selects the podcast mode, or all modes.
PodcastSelected(argv) == argv \in {"podcast", "PODCAST"}
AllSelected(argv) == argv \in {"all", "ALL"}

\* The folders a run of either program is asked to work on.
SelectedFolders ==
    IF sc_pc # "idle"
    THEN IF PodcastSelected(sc_argv) THEN {"podcast_scripts"} ELSE {"scripts"}
    ELSE IF PodcastSelected(tt_argv) THEN {"podcast_scripts"}
         ELSE IF AllSelected(tt_argv) THEN {"scripts", "podcast_scripts"}
              ELSE {"scripts"}

\* What the mode selector means for a state of a run.
ModeSelected ==
    /\ sc_pc \notin {"idle", "start"} =>
          /\ sc_reads = {IF PodcastSelected(sc_argv)
                         THEN "podcast_ideas.json" ELSE "ideas.json"}
          /\ \A n \in 1..Len(sc_writes) : sc_writes[n].path.dir \in SelectedFolders
    /\ tt_pc # "idle" =>
          /\ tt_reads \subseteq SelectedFolders
          /\ tt_pc = "returned" /\ tt_key => tt_reads = SelectedFolders
          /\ "podcast_scripts" \in tt_reads /\ AllSelected(tt_argv) =>
                "scripts" \in tt_reads
          /\ \A item \in tt_calls : item.dir \in SelectedFolders

\* C17: the first argument, compared without regard to case, selects the
\* mode: generate_scripts reads podcast_ideas.json and writes
\* podcast_scripts for podcast, ideas.json and scripts otherwise;
\* tts_generator goes into podcast_scripts for podcast, scripts and then
\* podcast_scripts for all, scripts otherwise; and no step of a run changes
\* a folder of a mode that was not selected.
C17_ModeSelector ==
    /\ []ModeSelected
    /\ [][\A f \in ScriptFolders \ SelectedFolders : fs_scripts'[f] = fs_scripts[f]]_vars

\* The speech stage, called with ALL, has gone through both folders and
\* written an audio file for a script of each.
C17_Witness ==
    /\ tt_pc = "returned"
    /\ tt_argv = "ALL"
    /\ tt_reads = {"scripts", "podcast_scripts"}
    /\ FileName("convo_fi_", <<"a">>, ".mp3") \in fs_mp3
    /\ FileName("podcast_", <<"a">>, ".mp3") \in fs_mp3

----------------------------------------------------------------------------
(* Claims about missing inputs *)

\* The input file of the script stage is absent.
IdeasFileAbsent == idea_files[IdeasFileOf(sc_argv)].status = "absent"

\* C15: in every stage, when the input file or input folder of the stage
\* is absent, the stage reports it and does nothing more, and no exception
\* ends the program: the script stage returns without a write, the speech
\* stage goes past the absent folder, the illustration stage returns, the
\* assembly stage ends without a video, and post-production returns.
C15_MissingInputContained ==
    /\ sc_pc \notin {"idle", "start"} /\ IdeasFileAbsent =>
          sc_pc = "returned" /\ sc_writes = <<>>
    /\ \A dir \in tt_reads :
          ~fs_scripts[dir].exists =>
              tt_pc # "crashed" /\ \A item \in tt_seen : item.dir # dir
    /\ il_pc \notin {"idle", "start"} /\ fs_scripts[INPUT_DIR].files = {} =>
          il_pc = "returned" /\ fs_illustrations = {}
    /\ am_pc \notin {"idle", "start"}
          /\ ~({ILLUSTRATION_FOLDER, MP3_FOLDER} \subseteq am_dirs) =>
          am_pc = "done" /\ am_videos = {}
    /\ vp_pc \notin {"idle", "start"} /\ video_files = <<>> =>
          vp_pc = "returned" /\ vp_sub_calls = <<>>

----------------------------------------------------------------------------
(* Further claims about voice assignment *)

\* C18: for every list of ideas, whatever the number of characters and
\* whether their gender, age and name are strings of any kind or absent,
\* assign_voice_ids and assign_podcast_voice_ids do not raise, and on
\* return every character carries a voice_id of the pool (of the allow-list
\* for podcasts), at worst a repeated or substituted one.
C18_NeverRaises ==
    /\ va_pc # "raised"
    /\ va_pc = "returned" =>
          \A i \in 1..Len(ideas_list) : \A j \in 1..Len(ideas_list[i].characters) :
             ideas_list[i].characters[j].voice_id \in
                IF va_mode = "podcast" THEN AllowListIds ELSE PoolIds

\* assign_voice_ids has returned an idea with more characters than the
\* pool has voice_ids, two of them with the same voice_id.
C18_Witness ==
    /\ va_pc = "returned"
    /\ va_mode = "conversation"
    /\ Len(ideas_list) = 1
    /\ Len(ideas_list[1].characters) = 10
    /\ ideas_list[1].characters[10].voice_id = ideas_list[1].characters[1].voice_id

\* The voice_ids the earlier characters of idea i had when character j was
\* handled.
UsedBefore(i, j) == {ideas_list[i].characters[a].voice_id : a \in 1..(j - 1)}

\* The gender of a character as the pool writes genders.
GenderOf(char) ==
    CASE char.gender \in {"female", "Female"} -> "female"
      [] char.gender \in {"male", "MALE"} -> "male"
      [] OTHER -> "unknown"

\* The age of a character as the pool writes ages ("" when absent).
AgeOf(char) ==
    CASE char.age = "Senior" -> "senior"
      [] char.age = Missing -> ""
      [] OTHER -> char.age

\* The voices of the pool of that gender, and of that gender and age.
GenderVoices(gender) == {v \in Range(VOICES) : v.gender = gender}
GenderAgeVoices(gender, age) == {v \in GenderVoices(gender) : v.age = age}

----------------------------------------------------------------------------
(* Further claims about video post-production *)

\* C19: when add_background_music reports a failure for a video, then once
\* the loop has gone past the video its final output is not in
\* final_subtitled_videos, its temp file is gone, and the next video of the
\* batch has been taken up.
C19_MixFailureIsolation ==
    \A k \in 1..Len(video_files) :
        video_files[k] \in vp_mix_failed /\ k < vp_idx =>
            /\ FinalPath(video_files[k]) \notin vp_files
            /\ TempPath(video_files[k]) \notin vp_files
            /\ k < Len(video_files) =>
                  \/ vp_pc = "subtitle" /\ vp_idx = k + 1
                  \/ video_files[k + 1] \in Range(vp_sub_calls)

\* The mixing of the first of two videos failed, the second one was mixed
\* and the batch returned.
C19_Witness ==
    /\ vp_pc = "returned"
    /\ Len(video_files) = 2
    /\ vp_mix_failed = {video_files[1]}
    /\ vp_mix_calls = <<video_files[1], video_files[2]>>
    /\ FinalPath(video_files[1]) \notin vp_files
    /\ FinalPath(video_files[2]) \in vp_files

----------------------------------------------------------------------------
(* Claims about the candidates of assign_voice_ids *)

\* The age of a voice of the pool ("" for a voice without an age, as the
\* comparison of line 197 reads it).
PoolAge(v) == IF v.age = Missing THEN "" ELSE v.age

\* The voices of the pool whose gender and age equal those of the character.
SameGenderAndAge(char) ==
    {v \in GenderVoices(GenderOf(char)) : PoolAge(v) = AgeOf(char)}

\* The three tiers over a first tier `both`.
ThreeTier(char, both) ==
    IF both # {} THEN both
    ELSE IF GenderVoices(GenderOf(char)) # {} THEN GenderVoices(GenderOf(char))
    ELSE Range(VOICES)

\* C21 (as claimed): the candidates computed for a character, before the
\* used ids are removed, are the voices matching its gender and age if
\* there are any, otherwise the voices matching its gender if there are
\* any, otherwise the whole pool; also for a character without an age.
C21_ThreeTier ==
    va_last # <<>> =>
        LET r == va_last[1]
        IN  Range(r.matching) = ThreeTier(r.char, SameGenderAndAge(r.char))

\* C21 (amended): the same three tiers, where the first tier is taken only
\* for a character that has a non-empty age; a character whose age is empty
\* or missing starts at the voices of its gender.
C21_ThreeTierWithAge ==
    va_last # <<>> =>
        LET r == va_last[1]
            both == IF AgeOf(r.char) = "" THEN {} ELSE SameGenderAndAge(r.char)
        IN  Range(r.matching) = ThreeTier(r.char, both)

\* The candidates of Aino (female, empty age) were the five female voices,
\* although one voice of the pool is female and has no age.
C21_Witness ==
    /\ va_last # <<>>
    /\ va_last[1].char.name = "Aino"
    /\ va_last[1].char.age = ""
    /\ Cardinality(Range(va_last[1].matching)) = 5
    /\ SameGenderAndAge(va_last[1].char) # {}

\* The candidates of the last character that are left once the used ids
\* are removed.
TierUnused(r) == {v \in Range(r.matching) : v.voice_id \notin r.used}

\* The voices of the pool whose voice_id is not used.
PoolUnused(r) == {v \in Range(VOICES) : v.voice_id \notin r.used}

\* C22 (as claimed): when removing the used voice_ids empties the
\* candidates, the voice is drawn from the whole pool with nothing removed;
\* otherwise the voice picked is a candidate whose voice_id is unused.
C22_ExhaustionFallback ==
    va_last # <<>> =>
        LET r == va_last[1]
        IN  IF TierUnused(r) = {}
            THEN Range(r.choice) = Range(VOICES)
            ELSE r.voice \in TierUnused(r)

\* C22 (amended): when removing the used voice_ids empties the candidates,
\* the voice is drawn from the voices of the pool whose voice_id is unused,
\* and from the whole pool only when every voice_id of the pool is used;
\* otherwise the voice picked is a candidate whose voice_id is unused.
C22_UnusedFirstFallback ==
    va_last # <<>> =>
        LET r == va_last[1]
        IN  /\ r.voice \in Range(r.choice)
            /\ IF TierUnused(r) # {} THEN Range(r.choice) = TierUnused(r)
               ELSE IF PoolUnused(r) # {} THEN Range(r.choice) = PoolUnused(r)
               ELSE Range(r.choice) = Range(VOICES)

\* Mummo's only candidate, Grandma Rachel, was taken by Liisa: Mummo's voice
\* was drawn from the nine voices left and is a male one.
C22_Witness ==
    /\ va_last # <<>>
    /\ va_last[1].char.name = "Mummo"
    /\ va_last[1].used = {"0rEo3eAjssGDUCXHYENf"}
    /\ TierUnused(va_last[1]) = {}
    /\ Len(va_last[1].choice) = 9
    /\ va_last[1].voice.gender = "male"

\* C29: the assignment changes nothing but the voice_id of the characters:
\* the pool and the allow-list are as they were, the ideas and their
\* characters are as many and in the same order as in the list passed in,
\* and every other field of every idea and character is as it was.
C29_AssignmentFrame ==
    /\ va_pool = VOICES
    /\ va_allow = ALLOWED_PODCAST_CHARACTERS
    /\ Len(ideas_list) = Len(va_input)
    /\ \A i \in 1..Len(ideas_list) :
          /\ [ideas_list[i] EXCEPT !.characters = va_input[i].characters] = va_input[i]
          /\ Len(ideas_list[i].characters) = Len(va_input[i].characters)
          /\ \A j \in 1..Len(ideas_list[i].characters) :
                [ideas_list[i].characters[j] EXCEPT
                    !.voice_id = va_input[i].characters[j].voice_id]
                = va_input[i].characters[j]

\* assign_podcast_voice_ids has returned two ideas; Bob of the first idea
\* came in without a voice_id and has one now.
C29_Witness ==
    /\ va_pc = "returned"
    /\ va_mode = "podcast"
    /\ Len(ideas_list) = 2
    /\ Len(ideas_list[1].characters) = 2
    /\ va_input[1].characters[2].name = "Bob"
    /\ va_input[1].characters[2].voice_id = Missing
    /\ ideas_list[1].characters[2].name = "Bob"
    /\ ideas_list[1].characters[2].voice_id \in AllowListIds

----------------------------------------------------------------------------
(* The post-production state machine *)

\* The state of item k of video_files.  An item the loop has gone past is
\* Aborted when its subtitling left no temp output and Finalized otherwise;
\* the item in work is Sourced before generate_subtitles, Subtitled before
\* add_background_music, Mixed before the cleanup, and Aborted when an
\* exception has ended the function while it was in work.
ItemState(k) ==
    IF k < vp_idx
    THEN IF video_files[k] \in vp_no_temp THEN "Aborted" ELSE "Finalized"
    ELSE IF k > vp_idx THEN "Sourced"
    ELSE CASE vp_pc = "mix" -> "Subtitled"
           [] vp_pc = "cleanup" -> "Mixed"
           [] vp_pc = "crashed" -> "Aborted"
           [] OTHER -> "Sourced"

ItemSteps == {
    <<"Sourced", "Subtitled">>,
    <<"Subtitled", "Mixed">>,
    <<"Mixed", "Finalized">>,
    <<"Sourced", "Aborted">>,
    <<"Subtitled", "Aborted">> }

TerminalStates == {"Finalized", "Aborted"}

\* The files in temp_processing.
TempFiles == {f \in vp_files : f.dir = TEMP_DIR}

\* C23: every change of the state of a video is one of Sourced to
\* Subtitled, Subtitled to Mixed, Mixed to Finalized, Sourced to Aborted and
\* Subtitled to Aborted; add_background_music is invoked only for a video
\* whose temp subtitled file exists; the temp file of a video is cleaned up
\* only after add_background_music was invoked for the video.
C23_StateMachine ==
    [][ /\ \A k \in 1..Len(video_files) :
              \/ ItemState(k)' = ItemState(k)
              \/ <<ItemState(k), ItemState(k)'>> \in ItemSteps
        /\ vp_mix_calls' # vp_mix_calls =>
              /\ vp_mix_calls' = Append(vp_mix_calls, video_files[vp_idx])
              /\ TempPath(video_files[vp_idx]) \in vp_files
        /\ (vp_pc = "cleanup" /\ vp_pc' # "cleanup") =>
              video_files[vp_idx] \in Range(vp_mix_calls)
      ]_vars

\* Of two videos the first went through the four states and the second was
\* aborted after its subtitling.
C23_Witness ==
    /\ vp_pc = "returned"
    /\ Len(video_files) = 2
    /\ ItemState(1) = "Finalized"
    /\ ItemState(2) = "Aborted"
    /\ vp_mix_calls = <<video_files[1]>>
    /\ TempPath(video_files[1]) \notin vp_files

\* C24: a video for which a collaborator has been called comes after
\* terminal videos only, at most one video is Subtitled or Mixed, and at
\* most one temp subtitled file exists.
C24_StrictlySequential ==
    /\ \A j \in 1..Len(video_files) :
          video_files[j] \in Range(vp_sub_calls) \cup Range(vp_mix_calls) =>
             \A k \in 1..(j - 1) : ItemState(k) \in TerminalStates
    /\ Cardinality({k \in 1..Len(video_files) :
                       ItemState(k) \in {"Subtitled", "Mixed"}}) <= 1
    /\ Cardinality(TempFiles) <= 1

\* The second of three videos is about to be mixed: the first is finalized,
\* the third untouched, and the one temp file is that of the second.
C24_Witness ==
    /\ Len(video_files) = 3
    /\ vp_pc = "mix"
    /\ vp_idx = 2
    /\ ItemState(1) = "Finalized"
    /\ ItemState(2) = "Subtitled"
    /\ ItemState(3) = "Sourced"
    /\ TempFiles = {TempPath(video_files[2])}
    /\ vp_sub_calls = <<video_files[1], video_files[2]>>

\* C25: batch_process_videos ends, by returning unless a collaborator
\* raised; when it has returned, every video of video_files was submitted
\* to generate_subtitles exactly once and is Finalized or Aborted.
C25_TerminatesNoRetry ==
    /\ <>(vp_pc \in {"returned", "crashed"})
    /\ [](vp_pc = "returned" =>
            \A k \in 1..Len(video_files) :
               /\ Count(vp_sub_calls, video_files[k]) = 1
               /\ ItemState(k) \in TerminalStates)

\* The run over three videos has returned, the second of them aborted.
C25_Witness ==
    /\ vp_pc = "returned"
    /\ Len(video_files) = 3
    /\ Len(vp_sub_calls) = 3
    /\ ItemState(1) = "Finalized"
    /\ ItemState(2) = "Aborted"
    /\ ItemState(3) = "Finalized"

\* C28 (as claimed): two distinct videos of video_files have different temp
\* paths, different final paths and different sidecar paths, and the final
\* output of a video has the file name of the video.
C28_CollisionFree ==
    \A a, b \in 1..Len(video_files) :
       /\ FinalPath(video_files[a]).name = video_files[a].name
       /\ a # b =>
             /\ TempPath(video_files[a]) # TempPath(video_files[b])
             /\ FinalPath(video_files[a]) # FinalPath(video_files[b])
             /\ AssPath(video_files[a]) # AssPath(video_files[b])

----------------------------------------------------------------------------
(* Further claims about video assembly *)

\* The matched names whose attempt did not give a video.
FailedPairs == Range(am_attempted) \ am_videos

\* C27: the loop runs its body once for every matched name, in sorted
\* order; a failed attempt (no image prepared, or the encoder exiting
\* non-zero) neither ends the run nor keeps the names after it from being
\* attempted; after the loop every matched name was attempted once and
\* temp/ is removed.
C27_AssemblyIsolation ==
    /\ am_attempted # <<>> => am_pc \in {"loop", "done"}
    /\ am_pc = "loop" => am_attempted \o am_todo = Sorted(common_names)
    /\ (am_pc = "done" /\ common_names # {}) =>
          /\ am_attempted = Sorted(common_names)
          /\ ~am_temp.exists
          /\ am_temp.files = {}
    /\ am_videos \subseteq Range(am_attempted)

\* With the pairs B and b matched, the attempt for B failed and the one for
\* b, made after it, gave a video; temp/ is gone.
C27_Witness ==
    /\ am_pc = "done"
    /\ common_names = {"B", "b"}
    /\ am_attempted = <<"B", "b">>
    /\ FailedPairs = {"B"}
    /\ am_videos = {"b"}
    /\ ~am_temp.exists

----------------------------------------------------------------------------
(* Speech, illustrations and assembly run one after the other *)

\* Path(file).stem of the file names the stages write: the prefix followed
\* by the base name.
PathStem(file) ==
    CASE file.prefix = "convo_fi_" /\ file.stem = <<"a">> -> "convo_fi_a"
      [] file.prefix = "convo_fi_" /\ file.stem = <<"b">> -> "convo_fi_b"
      [] file.prefix = "convo_fi_" /\ file.stem = <<"e">> -> "convo_fi_e"
      [] file.prefix = "podcast_" /\ file.stem = <<"a">> -> "podcast_a"
      [] file.prefix = "podcast_" /\ file.stem = <<"b">> -> "podcast_b"
      [] file.prefix = "" /\ file.stem = <<"a">> -> "a"
      [] file.prefix = "" /\ file.stem = <<"b">> -> "b"
      [] file.prefix = "" /\ file.stem = <<"e">> -> "e"
      [] OTHER -> "z"

\* What scripts/ may hold in a run of the three programs: two scripts with
\* dialogue lines and an object without dialogue_list.
AssetScriptChoices == {
    ScriptFile(JsonName(<<"a">>), Content("object", SavedKeys, "lines")),
    ScriptFile(JsonName(<<"b">>), Content("object", SavedKeys, "lines")),
    ScriptFile(JsonName(<<"e">>), Content("object", {"metadata", "idea"}, Missing)) }

InitAssets ==
    /\ InitTtsStage
    /\ tt_key
    /\ InitIllustrationStage
    /\ \E files \in SubsetsUpTo(AssetScriptChoices, MaxScripts),
          podcast \in PodcastFolderChoices :
          fs_scripts = [f \in ScriptFolders |->
                           IF f = PODCAST_SCRIPTS_DIR THEN podcast
                           ELSE Dir(TRUE, files)]
    /\ fs_mp3 = {}
    /\ fs_illustrations = {}
    /\ IdleScript /\ IdleCore

\* generate_videos.py is started once the two stages have ended: lines
\* 24-25 list illustrations/ and mp3/ as the stages left them.  A folder
\* exists when a file was written into it, and may exist without.
AssemblyStart ==
    /\ am_pc = "idle"
    /\ tt_pc \in {"returned", "crashed"}
    /\ il_pc \in {"returned", "crashed"}
    /\ am_illustrations' = {Entry(PathStem(f), f.suffix, TRUE) : f \in fs_illustrations}
    /\ am_mp3' = {Entry(PathStem(f), f.suffix, TRUE) : f \in fs_mp3}
    /\ am_dirs' \in {d \in SUBSET {ILLUSTRATION_FOLDER, MP3_FOLDER} :
                        /\ fs_illustrations # {} => ILLUSTRATION_FOLDER \in d
                        /\ fs_mp3 # {} => MP3_FOLDER \in d}
    /\ am_pc' = "start"
    /\ UNCHANGED <<illustration_files, mp3_files, common_names, am_todo, am_temp,
                   am_videos, am_attempted>>
    /\ UNCHANGED <<va_vars, sl_vars, vp_vars, st_vars>>

NextAssets == NextTts \/ NextIllustration \/ AssemblyStart \/ NextMatch

SpecAssets == InitAssets /\ [][NextAssets]_vars

----------------------------------------------------------------------------
(* Claims about the keys the stages share *)

\* The two records are about the same script file.
SameScript(t, i) == t.dir = i.dir /\ t.name = i.name

\* The illustration stage has gone through scripts/ and every request it
\* made gave an image.
IllustrationsDone ==
    /\ il_pc = "returned"
    /\ \A name \in il_calls : \E i \in il_saved : i.name = name

\* What key agreement means for the audio file t of a script: the image of
\* the script has the stem of the audio, assembly pairs the two and makes
\* its attempt under the name <stem>.mp4.
Agreed(t) ==
    \E i \in il_saved :
       /\ SameScript(t, i)
       /\ PathStem(t.file) = PathStem(i.file)
       /\ am_pc = "done" =>
             /\ PathStem(t.file) \in common_names
             /\ PathStem(t.file) \in Range(am_attempted)
             /\ am_videos \subseteq Range(am_attempted)

----------------------------------------------------------------------------
(* Workspace cleanup (cleanup.py) *)

\* How many of the listed paths hold something when the program starts, and
\* how many times cleanup() is entered.
MaxPresent == 2
MaxRuns == 2

\* CLEANUP_PATHS
CLEANUP_PATHS ==
    [directories |-> <<"scripts", "mp3", "output", "output_videos",
                       "illustrations", "final_subtitled_videos", "subtitles",
                       "podcast_scripts">>,
     files |-> <<"ideas.json", "podcast_ideas.json">>]

ListedDirectories == Range(CLEANUP_PATHS.directories)
ListedFiles == Range(CLEANUP_PATHS.files)
Listed == ListedDirectories \cup ListedFiles

\* Paths of the working directory that CLEANUP_PATHS does not name.
OtherPaths == {"temp", "temp_processing", ".env"}

\* What lies at a path: nothing; a directory tree that can be removed whole
\* ("tree"); a tree of which shutil.rmtree removes some entries before it
\* meets one it cannot remove ("partly"); a tree whose first entry already
\* cannot be removed ("stuck"); a file that can be removed ("file"); a file
\* that cannot ("kept").
DirectoryEntries == {"tree", "partly", "stuck"}
FileEntries == {"file", "kept"}

\* os.path.exists(path)
Exists(entry) == entry # "absent"

\* shutil.rmtree(directory): whether it raises, and what it leaves.
RmtreeRaises(entry) == entry \in {"partly", "stuck"}
Rmtree(entry) ==
    CASE entry = "tree" -> "absent"
      [] entry = "partly" -> "stuck"
      [] OTHER -> entry

\* os.remove(file): whether it raises, and what it leaves.
RemoveRaises(entry) == entry # "file"
Remove(entry) == IF entry = "file" THEN "absent" ELSE entry

\* except Exception as e: print(...); the loop takes the next path.
AfterError_Uncaught(pc) == "crashed"
AfterError(pc) == pc

\* str.strip() without an argument strips white space at both ends.
Whitespace == {" ", "\t"}
RECURSIVE LStripWhitespace(_)
LStripWhitespace(s) ==
    IF s # <<>> /\ Head(s) \in Whitespace
    THEN LStripWhitespace(Tail(s))
    ELSE s
RECURSIVE RStripWhitespace(_)
RStripWhitespace(s) ==
    IF s # <<>> /\ s[Len(s)] \in Whitespace
    THEN RStripWhitespace(SubSeq(s, 1, Len(s) - 1))
    ELSE s

\* confirmation = input(...).strip().lower()
confirmation(typed) == LowerStr(RStripWhitespace(LStripWhitespace(typed)))

\* What the user may type at the prompt.
Typed ==
    {<<"y", "e", "s">>, <<"Y", "E", "S">>, <<" ", "Y", "e", "s", "\t">>,
     <<"y">>, <<"n", "o">>, <<>>, <<"y", "e", " ", "s">>,
     <<"y", "e", "s", "!">>}

\* The working directory in which the listed paths of DOMAIN present hold
\* what `present` says, and the other listed paths nothing.
Workspace(present) ==
    [p \in Listed \cup OtherPaths |->
        IF p \in DOMAIN present THEN present[p]
        ELSE IF p \in OtherPaths THEN (IF p = ".env" THEN "file" ELSE "tree")
        ELSE "absent"]

Workspaces ==
    UNION {{Workspace(present) :
                present \in {f \in [S -> DirectoryEntries \cup FileEntries] :
                                \A p \in S :
                                    f[p] \in (IF p \in ListedDirectories
                                              THEN DirectoryEntries
                                              ELSE FileEntries)}} :
           S \in {T \in SUBSET Listed : Cardinality(T) <= MaxPresent}}

\* The variables cleanup.py has nothing to do with.
cl_others == <<va_vars, sl_vars, am_vars, vp_vars, sc_vars, fs_vars, tt_vars,
               il_vars>>

InitCleanup ==
    /\ cl_input \in Typed
    /\ cl_fs \in Workspaces
    /\ cl_before = cl_fs
    /\ cl_todo = <<>>
    /\ cl_run = 0
    /\ cl_pc = "input"
    /\ IdleVoice /\ IdleSlug /\ IdleMatch /\ IdleVideo
    /\ IdleScript /\ IdleDirs /\ IdleTts /\ IdleIllustration

\* __main__: cleanup() is called when the confirmation is "yes".
Confirm ==
    /\ cl_pc = "input"
    /\ IF confirmation(cl_input) = <<"y", "e", "s">>
       THEN /\ cl_pc' = "directories"
            /\ cl_todo' = CLEANUP_PATHS.directories
            /\ cl_run' = 1
       ELSE /\ cl_pc' = "cancelled"
            /\ UNCHANGED <<cl_todo, cl_run>>
    /\ UNCHANGED <<cl_input, cl_fs, cl_before>>
    /\ UNCHANGED cl_others

\* One iteration of `for directory in CLEANUP_PATHS["directories"]`.
RemoveDirectory ==
    /\ cl_pc = "directories"
    /\ cl_todo # <<>>
    /\ LET directory == Head(cl_todo)
           entry == cl_fs[directory]
       IN  /\ cl_fs' = IF Exists(entry)
                       THEN [cl_fs EXCEPT ![directory] = Rmtree(entry)]
                       ELSE cl_fs
           /\ cl_pc' = IF Exists(entry) /\ RmtreeRaises(entry)
                       THEN AfterError(cl_pc)
                       ELSE cl_pc
    /\ cl_todo' = Tail(cl_todo)
    /\ UNCHANGED <<cl_input, cl_before, cl_run>>
    /\ UNCHANGED cl_others

\* The first loop is through; the second starts.
DirectoriesDone ==
    /\ cl_pc = "directories"
    /\ cl_todo = <<>>
    /\ cl_pc' = "files"
    /\ cl_todo' = CLEANUP_PATHS.files
    /\ UNCHANGED <<cl_input, cl_fs, cl_before, cl_run>>
    /\ UNCHANGED cl_others

\* One iteration of `for file in CLEANUP_PATHS["files"]`.
RemoveFile ==
    /\ cl_pc = "files"
    /\ cl_todo # <<>>
    /\ LET file == Head(cl_todo)
           entry == cl_fs[file]
       IN  /\ cl_fs' = IF Exists(entry)
                       THEN [cl_fs EXCEPT ![file] = Remove(entry)]
                       ELSE cl_fs
           /\ cl_pc' = IF Exists(entry) /\ RemoveRaises(entry)
                       THEN AfterError(cl_pc)
                       ELSE cl_pc
    /\ cl_todo' = Tail(cl_todo)
    /\ UNCHANGED <<cl_input, cl_before, cl_run>>
    /\ UNCHANGED cl_others

\* cleanup() returns.
FilesDone ==
    /\ cl_pc = "files"
    /\ cl_todo = <<>>
    /\ cl_pc' = "done"
    /\ UNCHANGED <<cl_input, cl_fs, cl_before, cl_todo, cl_run>>
    /\ UNCHANGED cl_others

\* cleanup() is entered once more, on the working directory as the run
\* before left it.
CleanupAgain ==
    /\ cl_pc = "done"
    /\ cl_run < MaxRuns
    /\ cl_run' = cl_run + 1
    /\ cl_pc' = "directories"
    /\ cl_todo' = CLEANUP_PATHS.directories
    /\ UNCHANGED <<cl_input, cl_fs, cl_before>>
    /\ UNCHANGED cl_others

NextCleanup ==
    \/ Confirm
    \/ RemoveDirectory
    \/ DirectoriesDone
    \/ RemoveFile
    \/ FilesDone
    \/ CleanupAgain

SpecCleanup == InitCleanup /\ [][NextCleanup]_vars

----------------------------------------------------------------------------
(* C30 *)

\* The typed text is "yes" in any case, with white space around it.
SaysYes(typed) ==
    \E a \in 0..Len(typed) :
        /\ Len(typed) >= a + 3
        /\ \A k \in 1..a : typed[k] \in {" ", "\t"}
        /\ typed[a + 1] \in {"y", "Y"}
        /\ typed[a + 2] \in {"e", "E"}
        /\ typed[a + 3] \in {"s", "S"}
        /\ \A k \in (a + 4)..Len(typed) : typed[k] \in {" ", "\t"}

\* A listed path holding what the call made for it can remove.
Removable(path, entry) ==
    \/ path \in ListedDirectories /\ entry = "tree"
    \/ path \in ListedFiles /\ entry = "file"

\* C30: cleanup.py changes the working directory only when the typed
\* confirmation, stripped and lower-cased, is "yes"; a run of cleanup() never
\* ends on an error, and when it has returned every listed directory and file
\* that could be removed is gone, whatever was missing or could not be removed
\* among the other listed paths; the paths outside the list are as they were;
\* and a second run of cleanup() changes nothing.
C30_Cleanup ==
    /\ [](cl_pc # "idle" =>
            /\ ~SaysYes(cl_input) => cl_fs = cl_before /\ cl_run = 0
            /\ cl_pc # "crashed"
            /\ cl_pc = "done" =>
                  \A p \in Listed :
                      Removable(p, cl_before[p]) => cl_fs[p] = "absent"
            /\ \A p \in OtherPaths : cl_fs[p] = cl_before[p])
    /\ [][cl_run' >= 2 => cl_fs' = cl_fs]_vars

\* Confirmed by " Yes" followed by a tab, cleanup() ran twice to its end in a
\* working directory where scripts/ could only partly be removed, mp3/ was
\* missing and ideas.json, later in the list, was removed.
C30_Witness ==
    /\ cl_pc = "done"
    /\ cl_run = 2
    /\ cl_input = <<" ", "Y", "e", "s", "\t">>
    /\ cl_before["scripts"] = "partly"
    /\ cl_fs["scripts"] = "stuck"
    /\ cl_before["mp3"] = "absent"
    /\ cl_before["ideas.json"] = "file"
    /\ cl_fs["ideas.json"] = "absent"

====
